---- MODULE Spec2Model ----
(***************************************************************************)
(* Model of Analyze (modules/analyze/analyzeobjects.go): the round-based   *)
(* expansion of an attack graph from the objects matching FilterFirst,     *)
(* followed by the outer-layer trim, the node-budget prune, the island     *)
(* prune and the final marking.                                            *)
(*                                                                         *)
(* One run of Analyze is one behaviour: Init fixes the object store and   *)
(* the options, and the actions are the steps of the function in program  *)
(* order.  Go's map iteration order is a nondeterministic choice.          *)
(***************************************************************************)
EXTENDS Integers, FiniteSets, Sequences, TLC

VARIABLES
    store,                \* the object store (read only): edges, prob, type, sid, attr
    opts,                 \* AnalyzeOptions, plus the package variable SortBy
    pc,                   \* position in Analyze
    nodes,                \* pg: the nodes of the working graph
    gedges,               \* pg: <<source, target>> -> EdgeBitmap
    nd,                   \* pg: node data, node -> [target, source, canexpand]
    extrainfo,            \* map[*Object]*GraphNode (Nil when absent)
    currentRound,
    visited,              \* nodes the range loop of this round has already handled
    nodesatstartofround,
    detectedges,
    detectobjecttypes,    \* [isnil, types]
    totalnodes,
    lefttoremove,
    warned,               \* the "could not find any outer nodes" warning was emitted
    Removed,              \* AnalysisResults.Removed
    hist,                 \* observations of the run, for the properties only
    turn                  \* the turn of one node in the range loop: currentobject, ei,
                          \* newconnectionsmap, the neighbours still to come

vars == <<store, opts, pc, nodes, gedges, nd, extrainfo, currentRound, visited,
          nodesatstartofround, detectedges, detectobjecttypes, totalnodes,
          lefttoremove, warned, Removed, hist, turn>>

----------------------------------------------------------------------------
(* Bounds of the model *)

\* the number of objects of the chain stores (the seed and its line of predecessors)
MaxChain == 4

\* the largest number of edges of the stores over three objects
MaxEdges == 3

\* the largest numbers of group and of other candidates of the star stores, and
\* the largest degree cap they are analyzed with
MaxGroups == 2

MaxOthers == 3

MaxCap == 3

----------------------------------------------------------------------------
(* Values *)

EdgeMemberOfGroup == "MemberOfGroup"

AllEdgesBitmap == {"MemberOfGroup", "GenericAll", "WriteDacl"}

Types == {"User", "Group"}

In == "In"

Out == "Out"

\* accumulatedprobability 1 (a float32 in 0..1) as a fixed-point integer; with
\* probabilities 50 and 100 every product of up to six factors is exact, in
\* float32 as well as here
AccOne == 1000000

Nil == [processRound |-> 0, accumulatedprobability |-> 0, CanExpand |-> 0, present |-> FALSE]

GraphNode(round, acc) ==
    [processRound |-> round, accumulatedprobability |-> acc, CanExpand |-> 0, present |-> TRUE]

NoData == [target |-> FALSE, source |-> FALSE, canexpand |-> 0]

\* no node has its turn
NoTurn == [n |-> "", ei |-> Nil, newconnectionsmap |-> << >>, pending |-> {}, before |-> << >>]

\* windowssecurity: the two well known SIDs, a null SID and domain SIDs (S-1-5-21-...)
EveryoneSID == "S-1-1-0"

AuthenticatedUsersSID == "S-1-5-11"

NullSID == "null"

DomainSIDs == {"S-1-5-21-1", "S-1-5-21-2"}

SIDIsNull(s) == s = NullSID

SIDComponent2(s) == IF s \in DomainSIDs THEN 21 ELSE IF s = AuthenticatedUsersSID THEN 11 ELSE 0

----------------------------------------------------------------------------
(* The working graph (package graph) *)

Order == Cardinality(nodes)

HasNode(o) == o \in nodes

\* AddEdge: creates the endpoints if absent, unions the label into an existing edge
AddEdge(g, pair, label) ==
    IF pair \in DOMAIN g
    THEN [g EXCEPT ![pair] = @ \cup label]
    ELSE [p \in DOMAIN g \cup {pair} |-> IF p = pair THEN label ELSE g[p]]

RECURSIVE AddEdges(_, _, _)
AddEdges(g, conn, pairs) ==
    IF pairs = {} THEN g
    ELSE LET p == CHOOSE q \in pairs : TRUE
         IN AddEdges(AddEdge(g, p, conn[p]), conn, pairs \ {p})

Endpoints(pairs) == {p[1] : p \in pairs} \cup {p[2] : p \in pairs}

\* DeleteNode for a set of nodes: the nodes, their data and their incident edges go
DeleteEdgesOf(g, del) ==
    [p \in {q \in DOMAIN g : q[1] \notin del /\ q[2] \notin del} |-> g[p]]

StartingNodes(ns, g) == {n \in ns : \A p \in DOMAIN g : p[2] # n}

EndingNodes(ns, g) == {n \in ns : \A p \in DOMAIN g : p[1] # n}

Islands(ns, g) == {n \in ns : \A p \in DOMAIN g : p[1] # n /\ p[2] # n}

OuterNodes(ns, g) == IF opts.Direction = In THEN StartingNodes(ns, g) ELSE EndingNodes(ns, g)

----------------------------------------------------------------------------
(* The object store (package engine) *)

\* currentobject.Edges(Direction): the neighbours on the far side
Neighbours(n) ==
    IF opts.Direction = In
    THEN {p[1] : p \in {q \in DOMAIN store.edges : q[2] = n}}
    ELSE {p[2] : p \in {q \in DOMAIN store.edges : q[1] = n}}

\* the store pair of the edge between currentobject n and nextobject m
StorePair(n, m) == IF opts.Direction = In THEN <<m, n>> ELSE <<n, m>>

\* EdgeBitmap.MaxProbability(source, target): the largest probability the kinds
\* of the bitmap confer on the pair; a blank bitmap confers none
MaxProbability(label, pair) == IF label = {} THEN 0 ELSE store.prob[pair]

----------------------------------------------------------------------------
(* Analyze, lines 136-160: the seeds *)

SeedDataUnmarked == NoData

\* line 144: the node data of a match of FilterFirst
SeedData == [NoData EXCEPT !.target = TRUE]

\* query.Execute(FilterFirst, objects): every match becomes a node marked "target"
\* with a GraphNode of round 1 and probability 1
Seed ==
    /\ pc = "seed"
    /\ nodes' = opts.FilterFirst
    /\ nd' = [o \in opts.FilterFirst |-> SeedData]
    /\ extrainfo' = [o \in store.objects |->
                        IF o \in opts.FilterFirst /\ (~extrainfo[o].present \/ extrainfo[o].processRound = 0)
                        THEN GraphNode(currentRound, AccOne)
                        ELSE extrainfo[o]]
    /\ detectedges' = opts.EdgesFirst
    /\ detectobjecttypes' = opts.ObjectTypesFirst
    /\ pc' = "round"
    /\ UNCHANGED <<store, opts, gedges, currentRound, visited, nodesatstartofround,
                   totalnodes, lefttoremove, warned, Removed, hist>>
    /\ UNCHANGED turn

----------------------------------------------------------------------------
(* Analyze, lines 163-352: the expansion rounds *)

\* lines 355-367: what follows the loop, on either way out of it
ExitExpansion ==
    /\ pc' = "trim"
    /\ detectobjecttypes' = IF Cardinality(opts.ObjectTypesLast) > 0
                            THEN [isnil |-> FALSE, types |-> opts.ObjectTypesLast]
                            ELSE [isnil |-> TRUE, types |-> {}]
    /\ hist' = [hist EXCEPT !.orderAfterExpansion = Order,
                            !.roundsRun = IF pc = "nodes" THEN currentRound ELSE currentRound - 1]

\* the loop test letting one round too many through
RoundAllowedOneMore == opts.MaxDepth + 1 >= currentRound \/ opts.MaxDepth = -1

\* line 163: the loop test
RoundAllowed == opts.MaxDepth >= currentRound \/ opts.MaxDepth = -1

\* the middle policy taken up a round late
ActiveEdgesFromRoundThree == IF currentRound = 3 THEN opts.EdgesMiddle ELSE detectedges

\* lines 165-166: detectedges of the round that starts
ActiveEdges == IF currentRound = 2 THEN opts.EdgesMiddle ELSE detectedges

\* line 163 (the loop test) and lines 165-175 (the start of a round)
StartRound ==
    /\ pc = "round"
    /\ IF RoundAllowed
       THEN /\ pc' = "nodes"
            /\ detectedges' = ActiveEdges
            /\ detectobjecttypes' =
                  IF currentRound = 2
                  THEN IF Cardinality(opts.ObjectTypesMiddle) > 0
                       THEN [isnil |-> FALSE, types |-> opts.ObjectTypesMiddle]
                       ELSE [isnil |-> TRUE, types |-> {}]
                  ELSE detectobjecttypes
            /\ nodesatstartofround' = Order
            /\ visited' = {}
            /\ hist' = [hist EXCEPT !.due = {n \in nodes : extrainfo[n].present
                                                /\ extrainfo[n].processRound = currentRound}]
       ELSE /\ ExitExpansion
            /\ UNCHANGED <<detectedges, nodesatstartofround, visited>>
    /\ UNCHANGED <<store, opts, nodes, gedges, nd, extrainfo, currentRound,
                   totalnodes, lefttoremove, warned, Removed>>
    /\ UNCHANGED turn

\* the guard applied whatever the direction
IsAUEOAnyDirection(n) ==
    /\ opts.DontExpandAUEO
    /\ store.sid[n] \in {EveryoneSID, AuthenticatedUsersSID}

\* line 187: Authenticated Users and Everyone are not expanded
IsAUEO(n) ==
    /\ opts.Direction = In
    /\ opts.DontExpandAUEO
    /\ store.sid[n] \in {EveryoneSID, AuthenticatedUsersSID}

DetectedExcluded(n, m) == store.edges[StorePair(n, m)] \ detectedges

\* lines 195-200
Detected(n, m) == store.edges[StorePair(n, m)] \cap detectedges

\* lines 209-215
EdgeProbability(n, m) == MaxProbability(Detected(n, m), StorePair(n, m))

\* the probability of the edge left out of the product
AccumulatedUnscaled(ei, n, m) == ei.accumulatedprobability

\* line 222 (and 268)
Accumulated(ei, n, m) == (ei.accumulatedprobability * EdgeProbability(n, m)) \div 100

\* lines 232-246: the candidate is skipped as a backlink
BacklinkSkip(n, m) ==
    /\ HasNode(m)
    /\ currentRound > 1
    /\ extrainfo[m].present
    /\ extrainfo[m].processRound + opts.Backlinks <= currentRound
    /\ \/ SIDIsNull(store.sid[n])
       \/ SIDIsNull(store.sid[m])
       \/ SIDComponent2(store.sid[n]) # 21
       \/ store.sid[n] # store.sid[m]

\* the candidate test without the gate on the accumulated probability
AcceptedWithoutAccumulatedGate(ei, n, m) ==
    /\ Detected(n, m) # {}
    /\ detectobjecttypes.isnil \/ store.type[m] \in detectobjecttypes.types
    /\ EdgeProbability(n, m) >= opts.MinEdgeProbability
    /\ ~BacklinkSkip(n, m)
    /\ m \in opts.FilterMiddle

\* lines 193-251: nextobject m is recorded as a candidate of currentobject n
Accepted(ei, n, m) ==
    /\ Detected(n, m) # {}
    /\ detectobjecttypes.isnil \/ store.type[m] \in detectobjecttypes.types
    /\ EdgeProbability(n, m) >= opts.MinEdgeProbability
    /\ Accumulated(ei, n, m) * 100 >= opts.MinAccumulatedProbability * AccOne
    /\ ~BacklinkSkip(n, m)
    /\ m \in opts.FilterMiddle

\* lines 253-261
GraphPair(n, m) == StorePair(n, m)

FarEnd(pair) == IF opts.Direction = In THEN pair[1] ELSE pair[2]

\* lines 185-261: newconnectionsmap of currentobject n
NewConnections(ei, n) ==
    LET acc == {m \in Neighbours(n) : Accepted(ei, n, m)}
    IN [pair \in {GraphPair(n, m) : m \in acc} |-> Detected(n, FarEnd(pair))]

\* the test of line 263 with "and" for "or": round 1 records no GraphNode
RecordStatesNotInRoundOne(ei, n, conn) ==
    [o \in store.objects |->
        IF GraphPair(n, o) \in DOMAIN conn /\ (currentRound # 1 /\ ~extrainfo[o].present)
        THEN GraphNode(currentRound + 1, Accumulated(ei, n, o))
        ELSE extrainfo[o]]

\* lines 263-270: the GraphNode of every recorded nextobject
RecordStates(ei, n, conn) ==
    [o \in store.objects |->
        IF GraphPair(n, o) \in DOMAIN conn /\ (currentRound # 1 \/ ~extrainfo[o].present)
        THEN GraphNode(currentRound + 1, Accumulated(ei, n, o))
        ELSE extrainfo[o]]

\* lines 284-289
GroupPairs(conn) == {p \in DOMAIN conn : EdgeMemberOfGroup \in conn[p]}

\* lines 291-302: the group edges are committed when there are fewer than the cap
GroupsAdded(conn) ==
    IF Cardinality(GroupPairs(conn)) < opts.MaxOutgoingConnections THEN GroupPairs(conn) ELSE {}

\* lines 305-335: what sort.Slice and the loop "add up to limit" may commit out of
\* rest when added edges are committed already; nothing when SortBy is not set
SortedChoices(rest, added) ==
    IF ~opts.SortBy
    THEN {{}}
    ELSE LET room == opts.MaxOutgoingConnections - added
             k == IF room <= 0 THEN 0
                  ELSE IF room < Cardinality(rest) THEN room ELSE Cardinality(rest)
         IN {S \in SUBSET rest :
                /\ Cardinality(S) = k
                /\ \A a \in S, b \in rest \ S :
                      store.attr[FarEnd(a)] >= store.attr[FarEnd(b)]}

\* line 341: ei.CanExpand = len(newconnectionsmap) - added, the map being what
\* is left of it after the deletes of line 297
CanExpandValue(conn, groups, more) ==
    Cardinality(DOMAIN conn \ groups) - (Cardinality(groups) + Cardinality(more))

\* line 275
CapFires(conn) ==
    ~(opts.MaxOutgoingConnections = -1 \/ Cardinality(DOMAIN conn) < opts.MaxOutgoingConnections)

\* the choices the iteration order of Go's maps and slices made so far, kept
\* when two calls are compared: the node a range loop came to and the far ends
\* of the edges committed for it, or the nodes the limiter deleted
Logged(choice) ==
    IF hist.call = 2 \/ hist.second # << >> THEN Append(hist.choices, choice) ELSE hist.choices

\* lines 177-343: the body of the range loop for one node of the current round
ExpandNode(n) ==
    /\ pc = "nodes"
    /\ n \in nodes \ visited
    /\ ~extrainfo[n].present \/ extrainfo[n].processRound = currentRound
    /\ IF ~extrainfo[n].present
       \* line 181 reads through a nil *GraphNode: the run ends in a panic
       THEN /\ pc' = "panic"
            /\ UNCHANGED <<nodes, gedges, nd, extrainfo, visited, hist>>
       ELSE IF IsAUEO(n)
       THEN /\ visited' = visited \cup {n}
            /\ hist' = [hist EXCEPT !.choices = Logged(<<n, {}>>)]
            /\ UNCHANGED <<pc, nodes, gedges, nd, extrainfo>>
       ELSE LET ei == extrainfo[n]
                conn == NewConnections(ei, n)
                ext1 == RecordStates(ei, n, conn)
                groups == IF CapFires(conn) THEN GroupsAdded(conn) ELSE {}
            IN \E more \in (IF CapFires(conn)
                            THEN SortedChoices(DOMAIN conn \ groups, Cardinality(groups))
                            ELSE {DOMAIN conn}) :
                  LET committed == groups \cup more
                      newnodes == nodes \cup Endpoints(committed)
                  IN /\ visited' = visited \cup {n}
                     /\ pc' = pc
                     /\ gedges' = AddEdges(gedges, conn, committed)
                     /\ nodes' = newnodes
                     /\ nd' = [o \in newnodes |-> IF o \in nodes THEN nd[o] ELSE NoData]
                     \* ei is the GraphNode n had when its turn began: the write of
                     \* line 341 reaches extrainfo[n] only if that entry was not replaced
                     /\ extrainfo' =
                           IF CapFires(conn) /\ ext1[n] = ei
                           THEN [ext1 EXCEPT ![n].CanExpand = CanExpandValue(conn, groups, more)]
                           ELSE ext1
                     /\ hist' = [hist EXCEPT
                           !.choices = Logged(<<n, {FarEnd(p) : p \in committed}>>),
                           !.expanded = @ \cup {n},
                           !.capFired = IF CapFires(conn) THEN @ \cup {n} ELSE @,
                           !.recorded = @ \cup {<<n, FarEnd(p), EdgeProbability(n, FarEnd(p)),
                                                  ei.accumulatedprobability>> : p \in DOMAIN conn},
                           !.cap[n] = [fired |-> CapFires(conn),
                                       candidates |-> Cardinality(DOMAIN conn),
                                       groups |-> Cardinality(GroupPairs(conn)),
                                       committed |-> Cardinality(committed),
                                       canexpand |-> IF CapFires(conn)
                                                     THEN CanExpandValue(conn, groups, more)
                                                     ELSE 0]]
    /\ UNCHANGED <<store, opts, currentRound, nodesatstartofround, detectedges,
                   detectobjecttypes, totalnodes, lefttoremove, warned, Removed>>
    /\ UNCHANGED turn

\* the count of nodes compared with pg.Size(), the count of edges
NothingAddedBySize == nodesatstartofround = Cardinality(DOMAIN gedges)

\* line 346: the round added no node
NothingAdded == nodesatstartofround = Order

\* lines 344-351: the range loop is over
EndRound ==
    /\ pc = "nodes"
    /\ \A n \in nodes \ visited :
          extrainfo[n].present /\ extrainfo[n].processRound # currentRound
    /\ IF NothingAdded
       THEN /\ ExitExpansion
            /\ UNCHANGED <<currentRound>>
       ELSE /\ currentRound' = currentRound + 1
            /\ pc' = "round"
            /\ UNCHANGED <<detectobjecttypes, hist>>
    /\ UNCHANGED <<store, opts, nodes, gedges, nd, extrainfo, visited, nodesatstartofround,
                   detectedges, totalnodes, lefttoremove, warned, Removed>>
    /\ UNCHANGED turn

----------------------------------------------------------------------------
(* Analyze, lines 177-343 step by step: the turn of one node of the range loop *)
(* as the callback of Edges(Direction).Range runs for one neighbour after the  *)
(* other, and then the commit                                                  *)

\* lines 177-191: the range loop comes to n
BeginTurn(n) ==
    /\ pc = "nodes"
    /\ n \in nodes \ visited
    /\ ~extrainfo[n].present \/ extrainfo[n].processRound = currentRound
    /\ IF ~extrainfo[n].present
       THEN /\ pc' = "panic"
            /\ UNCHANGED <<visited, turn>>
       ELSE IF IsAUEO(n)
       THEN /\ visited' = visited \cup {n}
            /\ UNCHANGED <<pc, turn>>
       ELSE /\ pc' = "range"
            /\ turn' = [n |-> n, ei |-> extrainfo[n], newconnectionsmap |-> << >>,
                        pending |-> Neighbours(n),
                        before |-> [nodes |-> nodes, gedges |-> gedges,
                                    extrainfo |-> extrainfo, detectedges |-> detectedges,
                                    detectobjecttypes |-> detectobjecttypes,
                                    currentRound |-> currentRound]]
            /\ UNCHANGED visited
    /\ UNCHANGED <<store, opts, nodes, gedges, nd, extrainfo, currentRound,
                   nodesatstartofround, detectedges, detectobjecttypes, totalnodes,
                   lefttoremove, warned, Removed, hist>>

\* lines 193-272: the callback for the neighbour m of currentobject
RangeEdge(m) ==
    /\ pc = "range"
    /\ m \in turn.pending
    /\ IF Accepted(turn.ei, turn.n, m)
       THEN /\ turn' = [turn EXCEPT
                           !.pending = @ \ {m},
                           !.newconnectionsmap =
                               [p \in DOMAIN @ \cup {GraphPair(turn.n, m)} |->
                                   IF p = GraphPair(turn.n, m)
                                   THEN Detected(turn.n, m) ELSE @[p]]]
            /\ extrainfo' =
                  IF currentRound # 1 \/ ~extrainfo[m].present
                  THEN [extrainfo EXCEPT
                           ![m] = GraphNode(currentRound + 1, Accumulated(turn.ei, turn.n, m))]
                  ELSE extrainfo
       ELSE /\ turn' = [turn EXCEPT !.pending = @ \ {m}]
            /\ UNCHANGED extrainfo
    /\ UNCHANGED <<store, opts, pc, nodes, gedges, nd, currentRound, visited,
                   nodesatstartofround, detectedges, detectobjecttypes, totalnodes,
                   lefttoremove, warned, Removed, hist>>

\* the commit started while neighbours are still to come
RangeIsOverAtOnce == TRUE

\* line 272: Range has called back for every neighbour
RangeIsOver == turn.pending = {}

\* lines 274-342: the edges of newconnectionsmap are committed, all of them or
\* what the cap lets through
CommitTurn ==
    /\ pc = "range"
    /\ RangeIsOver
    /\ LET n == turn.n
           conn == turn.newconnectionsmap
           groups == IF CapFires(conn) THEN GroupsAdded(conn) ELSE {}
       IN \E more \in (IF CapFires(conn)
                       THEN SortedChoices(DOMAIN conn \ groups, Cardinality(groups))
                       ELSE {DOMAIN conn}) :
             LET committed == groups \cup more
                 newnodes == nodes \cup Endpoints(committed)
             IN /\ visited' = visited \cup {n}
                /\ pc' = "nodes"
                /\ gedges' = AddEdges(gedges, conn, committed)
                /\ nodes' = newnodes
                /\ nd' = [o \in newnodes |-> IF o \in nodes THEN nd[o] ELSE NoData]
                /\ extrainfo' =
                      IF CapFires(conn) /\ extrainfo[n] = turn.ei
                      THEN [extrainfo EXCEPT ![n].CanExpand = CanExpandValue(conn, groups, more)]
                      ELSE extrainfo
                /\ turn' = [turn EXCEPT !.pending = {}]
                /\ hist' = [hist EXCEPT
                      !.expanded = @ \cup {n},
                      !.capFired = IF CapFires(conn) THEN @ \cup {n} ELSE @,
                      !.cap[n] = [fired |-> CapFires(conn),
                                  candidates |-> Cardinality(DOMAIN conn),
                                  groups |-> Cardinality(GroupPairs(conn)),
                                  committed |-> Cardinality(committed),
                                  canexpand |-> IF CapFires(conn)
                                                THEN CanExpandValue(conn, groups, more)
                                                ELSE 0]]
    /\ UNCHANGED <<store, opts, currentRound, nodesatstartofround, detectedges,
                   detectobjecttypes, totalnodes, lefttoremove, warned, Removed>>

----------------------------------------------------------------------------
(* Analyze, lines 369-443: the outer-layer trim *)

EndNodeSource(pair) == pair[1]

\* lines 386-392
EndNode(pair) == IF opts.Direction = In THEN pair[1] ELSE pair[2]

\* the check of the edge kinds alone
TrimRejectsByEdgeOnly(pair) == opts.EdgesLast \cap gedges[pair] = {}

\* the end node judged by all its edges: one edge inside EdgesLast saves it
EdgeMatchesLastByAnyEdge(pair) ==
    \E q \in DOMAIN gedges :
        /\ EndNode(pair) \in {q[1], q[2]}
        /\ opts.EdgesLast \cap gedges[q] # {}

\* line 395: the edge alone is looked at
EdgeMatchesLast(pair) == opts.EdgesLast \cap gedges[pair] # {}

\* lines 395-417: the edge makes the pass delete its end node
TrimRejects(pair) ==
    \/ ~EdgeMatchesLast(pair)
    \/ ~detectobjecttypes.isnil /\ store.type[EndNode(pair)] \notin detectobjecttypes.types
    \/ EndNode(pair) \notin opts.FilterLast

\* the end node of every rejected edge deleted, outer or not
TrimDeletesEveryEnd ==
    {EndNode(p) : p \in {q \in DOMAIN gedges : TrimRejects(q)}}

\* lines 374-420: the nodes one pass deletes; outernodemap is taken before the
\* edges are iterated
TrimDeletes ==
    LET outernodemap == OuterNodes(nodes, gedges)
    IN {EndNode(p) : p \in {q \in DOMAIN gedges : EndNode(q) \in outernodemap /\ TrimRejects(q)}}

\* the count taken before the trim instead of after it
TotalNodesBeforeTrim == hist.orderAfterExpansion

\* line 442
TotalNodes == Order

\* the prune entered whatever NodeLimit is
BudgetAppliesWithoutLimit == Order - opts.NodeLimit > 0

\* lines 443-444: toomanynodes and the test that lets the node-budget prune run
BudgetApplies == opts.NodeLimit > 0 /\ Order - opts.NodeLimit > 0

\* lines 370-427, one pass of the loop; the pass that removes nothing leaves the
\* loop and runs lines 430-447
TrimPass ==
    /\ pc = "trim"
    /\ LET del == TrimDeletes
       IN IF del # {}
          THEN /\ nodes' = nodes \ del
               /\ gedges' = DeleteEdgesOf(gedges, del)
               /\ nd' = [o \in nodes \ del |-> nd[o]]
               /\ hist' = [hist EXCEPT !.trimPasses = @ + 1,
                                       !.trimDeleted = @ \cup del,
                                       !.trimInner = @ \cup (del \ OuterNodes(nodes, gedges)),
                                       !.trimPassOf = [o \in store.objects |->
                                            IF o \in del THEN hist.trimPasses + 1 ELSE @[o]]]
               /\ UNCHANGED <<pc, totalnodes, lefttoremove>>
          ELSE /\ nd' = [o \in nodes |->
                            IF o \in OuterNodes(nodes, gedges)
                            THEN [nd[o] EXCEPT !.source = TRUE] ELSE nd[o]]
               /\ totalnodes' = TotalNodes
               /\ IF BudgetApplies
                  THEN lefttoremove' = Order - opts.NodeLimit /\ pc' = "budget"
                  ELSE lefttoremove' = lefttoremove /\ pc' = "islands"
               /\ hist' = [hist EXCEPT !.trimPasses = @ + 1, !.orderAfterTrim = Order]
               /\ UNCHANGED <<nodes, gedges>>
    /\ UNCHANGED <<store, opts, extrainfo, currentRound, visited, nodesatstartofround,
                   detectedges, detectobjecttypes, warned, Removed>>
    /\ UNCHANGED turn

----------------------------------------------------------------------------
(* Analyze, lines 449-483: the node-budget prune *)

RECURSIVE MaxRoundOf(_)
\* lines 451-465: maxround over the outer nodes, 0 when there is none
MaxRoundOf(os) ==
    IF os = {} THEN 0
    ELSE LET o == CHOOSE x \in os : TRUE
             rest == MaxRoundOf(os \ {o})
         IN IF rest < extrainfo[o].processRound THEN extrainfo[o].processRound ELSE rest

\* the outer nodes compared with a round no outer node has
BudgetCandidatesPastMaxRound ==
    LET outernodes == OuterNodes(nodes, gedges)
    IN {o \in outernodes : extrainfo[o].processRound = MaxRoundOf(outernodes) + 1}

\* lines 467-477: the outer nodes of the highest round, of which the pass deletes
\* the first lefttoremove in the order of the slice
BudgetCandidates ==
    LET outernodes == OuterNodes(nodes, gedges)
    IN {o \in outernodes : extrainfo[o].processRound = MaxRoundOf(outernodes)}

\* a pass that deletes its whole layer
BudgetCountWholeLayer(cands) == Cardinality(cands)

\* lines 467-477: the pass leaves its inner loop when lefttoremove is 0, so it
\* deletes lefttoremove nodes of the layer or the whole layer if that is less
BudgetCount(cands) ==
    IF lefttoremove < Cardinality(cands) THEN lefttoremove ELSE Cardinality(cands)

\* lines 449-482, one pass of the loop
BudgetPass ==
    /\ pc = "budget"
    /\ lefttoremove > 0
    /\ LET cands == BudgetCandidates
           k == BudgetCount(cands)
       IN \E del \in {S \in SUBSET cands : Cardinality(S) = k} :
             IF \E o \in OuterNodes(nodes, gedges) : ~extrainfo[o].present
             \* lines 462 and 468 read through a nil *GraphNode
             THEN /\ pc' = "panic"
                  /\ UNCHANGED <<nodes, gedges, nd, lefttoremove, warned, hist>>
             ELSE /\ nodes' = nodes \ del
                  /\ gedges' = DeleteEdgesOf(gedges, del)
                  /\ nd' = [o \in nodes \ del |-> nd[o]]
                  /\ lefttoremove' = lefttoremove - k
                  /\ warned' = (warned \/ (k = 0 /\ lefttoremove > 0))
                  /\ pc' = IF k = 0 \/ lefttoremove - k = 0 THEN "islands" ELSE "budget"
                  /\ hist' = [hist EXCEPT
                        !.choices = Logged(<<del>>),
                        !.budgetDeleted = @ \cup del,
                        !.budgetPasses = @ + 1,
                        !.outerAtWarning = IF k = 0 THEN OuterNodes(nodes, gedges) ELSE @]
    /\ UNCHANGED <<store, opts, extrainfo, currentRound, visited, nodesatstartofround,
                   detectedges, detectobjecttypes, totalnodes, Removed>>
    /\ UNCHANGED turn

----------------------------------------------------------------------------
(* Analyze, lines 487-527: the island prune, the marks and the result *)

\* the island prune sparing the targets
IslandsToPruneButTargets ==
    IF opts.PruneIslands THEN Islands(nodes, gedges) \ opts.FilterFirst ELSE {}

\* lines 489-495: the nodes the island prune deletes
IslandsToPrune == IF opts.PruneIslands THEN Islands(nodes, gedges) ELSE {}

\* lines 488-495
PruneIslands ==
    /\ pc = "islands"
    /\ LET del == IslandsToPrune
       IN /\ nodes' = nodes \ del
          /\ nd' = [o \in nodes \ del |-> nd[o]]
          /\ hist' = [hist EXCEPT !.islandDeleted = del, !.orderAfterBudget = Order]
    /\ pc' = "final"
    /\ UNCHANGED <<store, opts, gedges, extrainfo, currentRound, visited,
                   nodesatstartofround, detectedges, detectobjecttypes, totalnodes,
                   lefttoremove, warned, Removed>>
    /\ UNCHANGED turn

\* the mark given to every object with CanExpand > 0, in the graph or not
MarkedCanExpandWithoutHasNode ==
    {eo \in store.objects : extrainfo[eo].present /\ extrainfo[eo].CanExpand > 0}

\* lines 514-518: the objects that get the "canexpand" mark
MarkedCanExpand ==
    {eo \in store.objects :
        HasNode(eo) /\ extrainfo[eo].present /\ extrainfo[eo].CanExpand > 0}

\* only the deletions of the node limiter counted
RemovedCountOfLimiter == Cardinality(hist.budgetDeleted)

\* line 525: pg.Order() after the marks of lines 514-518
RemovedCount == totalnodes - Cardinality(nodes \cup MarkedCanExpand)

\* the nodes without a successor, whatever the direction
FinalOuterNodesEnding == EndingNodes(nodes, gedges)

\* lines 503-507
FinalOuterNodes == OuterNodes(nodes, gedges)

\* lines 502-526; pg.SetNodeData on an object that is not a node adds it
\* (line 513, "otherwise they get readded below")
Finalize ==
    /\ pc = "final"
    /\ nodes' = nodes \cup MarkedCanExpand
    /\ nd' = [o \in nodes \cup MarkedCanExpand |->
                 [(IF o \in nodes THEN nd[o] ELSE NoData) EXCEPT
                     !.source = (@ \/ o \in FinalOuterNodes),
                     !.canexpand = IF o \in MarkedCanExpand
                                   THEN extrainfo[o].CanExpand ELSE @]]
    /\ Removed' = RemovedCount
    /\ pc' = "done"
    /\ UNCHANGED <<store, opts, gedges, extrainfo, currentRound, visited,
                   nodesatstartofround, detectedges, detectobjecttypes, totalnodes,
                   lefttoremove, warned, hist>>
    /\ UNCHANGED turn

----------------------------------------------------------------------------
(* The runs that are checked: stores and options *)

\* NewAnalyzeObjectsOptions (lines 20-33), the other fields at their zero values,
\* SortBy at its initial value (line 16) and no filter but FilterFirst
DefaultOptions(objects, seeds) ==
    [FilterFirst |-> seeds, FilterMiddle |-> objects, FilterLast |-> objects,
     ObjectTypesFirst |-> [isnil |-> TRUE, types |-> {}],
     ObjectTypesMiddle |-> {}, ObjectTypesLast |-> {},
     EdgesFirst |-> AllEdgesBitmap, EdgesMiddle |-> AllEdgesBitmap, EdgesLast |-> AllEdgesBitmap,
     MaxDepth |-> -1, MaxOutgoingConnections |-> -1, Direction |-> In, Backlinks |-> 0,
     MinEdgeProbability |-> 0, MinAccumulatedProbability |-> 0,
     PruneIslands |-> FALSE, DontExpandAUEO |-> TRUE, NodeLimit |-> 0, SortBy |-> FALSE]

\* a store of plain objects: users with a null SID and no attribute
PlainStore(objects, edges, prob) ==
    [objects |-> objects, edges |-> edges, prob |-> prob,
     type |-> [o \in objects |-> "User"],
     sid |-> [o \in objects |-> NullSID],
     attr |-> [o \in objects |-> 0]]

NoHistory(objects) ==
    [orderAfterExpansion |-> 0, roundsRun |-> 0, expanded |-> {}, recorded |-> {},
     capFired |-> {},
     cap |-> [o \in objects |-> [fired |-> FALSE, candidates |-> 0, groups |-> 0,
                                 committed |-> 0, canexpand |-> 0]],
     trimPasses |-> 0, trimDeleted |-> {}, trimPassOf |-> [o \in objects |-> 0],
     trimInner |-> {}, request |-> << >>, call |-> 1, first |-> << >>, second |-> << >>,
     choices |-> << >>, due |-> {},
     orderAfterTrim |-> 0, budgetDeleted |-> {}, budgetPasses |-> 0, outerAtWarning |-> {},
     islandDeleted |-> {}, orderAfterBudget |-> 0]

\* the state at the entry of Analyze (lines 138-142) for a store and options
Entry(st, op) ==
    /\ store = st
    /\ opts = op
    /\ pc = "seed"
    /\ nodes = {}
    /\ gedges = << >>
    /\ nd = << >>
    /\ extrainfo = [o \in st.objects |-> Nil]
    /\ currentRound = 1
    /\ visited = {}
    /\ nodesatstartofround = 0
    /\ detectedges = {}
    /\ detectobjecttypes = [isnil |-> TRUE, types |-> {}]
    /\ totalnodes = 0
    /\ lefttoremove = 0
    /\ warned = FALSE
    /\ Removed = 0
    /\ turn = NoTurn
    /\ hist = NoHistory(st.objects)

ChainNames == <<"T", "C", "B", "A", "Z">>

ChainObjects == {ChainNames[i] : i \in 1..MaxChain}

\* the line ... -> A -> B -> C -> T, the shortcut B -> T and the edge T -> C
\* back from the first seed
ChainTemplate ==
    {<<ChainNames[i + 1], ChainNames[i]>> : i \in 1..(MaxChain - 1)}
        \cup {<<"B", "T">>, <<"T", "C">>}

ProbabilityValues == {50, 100}

\* every store made of edges of the template, each with a probability
ChainLine == {<<ChainNames[i + 1], ChainNames[i]>> : i \in 1..(MaxChain - 1)}

\* every store made of edges of the template, the edges of the line with either
\* probability and the other two with probability 100
ChainStores ==
    UNION {{PlainStore(ChainObjects, [p \in e |-> {"GenericAll"}],
                       [p \in e |-> IF p \in ChainLine THEN pr[p] ELSE 100]) :
                pr \in [e \cap ChainLine -> ProbabilityValues]} : e \in SUBSET ChainTemplate}

\* the options the chain stores are analyzed with: one or two seeds, every depth
\* limit that cuts the chain, the probability thresholds, the degree cap, backlinks
ChainOptions ==
    {[DefaultOptions(ChainObjects, s) EXCEPT
         !.MaxDepth = d, !.MinAccumulatedProbability = a,
         !.MaxOutgoingConnections = c, !.Backlinks = b] :
        s \in {{"T"}, {"T", "C"}}, d \in -1..(MaxChain - 2), a \in {0, 30, 60},
        c \in {-1, 2}, b \in {0, 1}}
    \cup
    {[DefaultOptions(ChainObjects, s) EXCEPT
         !.MinEdgeProbability = e, !.NodeLimit = l, !.PruneIslands = i] :
        s \in {{"T"}, {"T", "C"}}, e \in {0, 60}, l \in {0, 1}, i \in BOOLEAN}

\* the store with every edge turned around
ReversedStore(st) ==
    [st EXCEPT !.edges = [p \in {<<q[2], q[1]>> : q \in DOMAIN st.edges} |-> st.edges[<<p[2], p[1]>>]],
               !.prob = [p \in {<<q[2], q[1]>> : q \in DOMAIN st.prob} |-> st.prob[<<p[2], p[1]>>]]]

\* Direction = Out, for the chain stores turned around
ChainOptionsOut ==
    {[DefaultOptions(ChainObjects, {"T"}) EXCEPT
         !.Direction = Out, !.MaxDepth = d, !.MinAccumulatedProbability = a, !.Backlinks = b] :
        d \in {-1, MaxChain - 2}, a \in {0, 30}, b \in {0, 1}}

InitChain ==
    \/ \E st \in ChainStores, op \in ChainOptions : Entry(st, op)
    \/ \E st \in ChainStores, op \in ChainOptionsOut : Entry(ReversedStore(st), op)

Next ==
    \/ Seed
    \/ StartRound
    \/ \E n \in store.objects : ExpandNode(n)
    \/ EndRound
    \/ TrimPass
    \/ BudgetPass
    \/ PruneIslands
    \/ Finalize

\* Analyze on the chain stores
SpecChain == InitChain /\ [][Next]_vars

TriangleObjects == {"T", "C", "B"}

TrianglePairs == {p \in TriangleObjects \X TriangleObjects : p[1] # p[2]}

TriangleEdgeSets == {e \in SUBSET TrianglePairs : Cardinality(e) <= MaxEdges}

\* a store over T, C and B: B is a group, every probability is 100
TriangleStore(labels) ==
    [PlainStore(TriangleObjects, labels, [p \in DOMAIN labels |-> 100]) EXCEPT
        !.type = [o \in TriangleObjects |-> IF o = "B" THEN "Group" ELSE "User"]]

\* the stores with every edge of one kind, and those with edges of two kinds
TriangleStoresOneKind ==
    {TriangleStore([p \in e |-> {"GenericAll"}]) : e \in TriangleEdgeSets}

TriangleStoresTwoKinds ==
    UNION {{TriangleStore(l) : l \in [e -> {{"GenericAll"}, {"WriteDacl"}}]} :
              e \in TriangleEdgeSets}

\* one or two seeds, either direction, a node budget, the island prune
TriangleBaseOptions ==
    {[DefaultOptions(TriangleObjects, s) EXCEPT
         !.Direction = d, !.NodeLimit = l, !.PruneIslands = i] :
        s \in {{"T"}, {"T", "C"}}, d \in {In, Out}, l \in 0..2, i \in BOOLEAN}

\* the last tier restricted by type or by filter
TriangleLastPolicies(op) ==
    {op,
     [op EXCEPT !.ObjectTypesLast = {"User"}],
     [op EXCEPT !.FilterLast = TriangleObjects \ {"C"}]}

\* the post-filter phases on the stores over three objects: every last-tier
\* policy on the stores of one edge kind, EdgesLast on those of two
InitTriangle ==
    \/ \E st \in TriangleStoresOneKind, base \in TriangleBaseOptions :
          \E op \in TriangleLastPolicies(base) : Entry(st, op)
    \/ \E st \in TriangleStoresTwoKinds, base \in TriangleBaseOptions :
          Entry(st, [base EXCEPT !.EdgesLast = {"GenericAll"}])

\* Analyze on the stores over three objects
SpecTriangle == InitTriangle /\ [][Next]_vars

GroupNames == <<"G1", "G2", "G3", "G4", "G5">>

OtherNames == <<"U1", "U2", "U3", "U4", "U5", "U6", "U7", "U8", "U9", "U10">>

\* the seed T with g candidates joined to it by MemberOfGroup edges and u other
\* candidates; ranked: the others carry the attribute SortBy reads, U1 the highest
StarStore(g, u, ranked) ==
    LET groups == {GroupNames[i] : i \in 1..g}
        others == {OtherNames[i] : i \in 1..u}
        objects == {"T"} \cup groups \cup others
    IN [objects |-> objects,
        edges |-> [p \in {<<o, "T">> : o \in groups \cup others} |->
                      IF p[1] \in groups THEN {EdgeMemberOfGroup} ELSE {"GenericAll"}],
        prob |-> [p \in {<<o, "T">> : o \in groups \cup others} |-> 100],
        type |-> [o \in objects |-> IF o \in groups THEN "Group" ELSE "User"],
        sid |-> [o \in objects |-> NullSID],
        attr |-> [o \in objects |->
                    IF ranked /\ o \in others
                    THEN 11 - (CHOOSE i \in 1..u : OtherNames[i] = o) ELSE 0]]

StarOptions(objects, c, sortby, limit) ==
    [DefaultOptions(objects, {"T"}) EXCEPT
        !.MaxOutgoingConnections = c, !.SortBy = sortby, !.NodeLimit = limit]

\* the small stars with every cap, and the star of scenario 4: 5 groups, 10
\* others, a cap of 6
InitStar ==
    \/ \E g \in 0..MaxGroups, u \in 0..MaxOthers, ranked \in BOOLEAN,
          c \in -1..MaxCap, sortby \in BOOLEAN, limit \in 0..1 :
          Entry(StarStore(g, u, ranked),
                StarOptions(StarStore(g, u, ranked).objects, c, sortby, limit))
    \/ \E ranked \in BOOLEAN, sortby \in BOOLEAN :
          Entry(StarStore(5, 10, ranked),
                StarOptions(StarStore(5, 10, ranked).objects, 6, sortby, 0))

\* Analyze on the star stores
SpecStar == InitStar /\ [][Next]_vars

\* the stores over T, C and B in which C is one of the two well known principals
GuardStores ==
    {[TriangleStore([p \in e |-> {"GenericAll"}]) EXCEPT
         !.sid = [o \in TriangleObjects |-> IF o = "C" THEN s ELSE NullSID]] :
        e \in TriangleEdgeSets, s \in {EveryoneSID, AuthenticatedUsersSID}}

\* every choice of seeds, either direction, DontExpandAUEO on and off
GuardOptions ==
    {[DefaultOptions(TriangleObjects, s) EXCEPT
         !.Direction = d, !.DontExpandAUEO = g, !.NodeLimit = l] :
        s \in {{"T"}, {"C"}, {"T", "C"}}, d \in {In, Out}, g \in BOOLEAN, l \in 0..1}

InitGuard == \E st \in GuardStores, op \in GuardOptions : Entry(st, op)

\* Analyze on the stores that hold Everyone or Authenticated Users
SpecGuard == InitGuard /\ [][Next]_vars


LoopPairs == TriangleObjects \X TriangleObjects

\* the stores over T, C and B whose edges may form cycles and join an object to
\* itself
LoopStores ==
    {TriangleStore([p \in e |-> {"GenericAll"}]) :
        e \in {x \in SUBSET LoopPairs : Cardinality(x) <= MaxEdges}}

\* no depth limit, backlinks, a node budget and a last tier that rejects C
LoopOptions ==
    {[DefaultOptions(TriangleObjects, s) EXCEPT
         !.Backlinks = b, !.NodeLimit = l, !.FilterLast = f] :
        s \in {{"T"}, {"T", "C"}}, b \in 0..2, l \in 0..1,
        f \in {TriangleObjects, TriangleObjects \ {"C"}}}

InitLoop == \E st \in LoopStores, op \in LoopOptions : Entry(st, op)

\* Analyze on the stores with cycles
SpecLoop == InitLoop /\ [][Next]_vars

\* Analyze is one sequential function: it takes its next step as long as it has one
SpecLoopFair == SpecLoop /\ WF_vars(Next)


\* the stores with cycles and self-edges, with null SIDs or with T and C in two
\* domains: no two objects share a SID
SidStores ==
    {[st EXCEPT !.sid = sd] :
        st \in LoopStores,
        sd \in {[o \in TriangleObjects |-> NullSID],
                [T |-> "S-1-5-21-1", C |-> "S-1-5-21-2", B |-> NullSID]}}

\* one or two seeds, either direction, backlinks, a cap
SidOptions ==
    {[DefaultOptions(TriangleObjects, s) EXCEPT
         !.Direction = d, !.Backlinks = b, !.MaxOutgoingConnections = c, !.NodeLimit = l] :
        s \in {{"T"}, {"T", "B"}}, d \in {In, Out}, b \in 0..1, c \in {-1, 2}, l \in 0..1}

InitSid == \E st \in SidStores, op \in SidOptions : Entry(st, op)

\* Analyze on the stores whose objects have domain SIDs
SpecSid == InitSid /\ [][Next]_vars

\* the line ... -> A -> B -> C -> T with every edge of one kind, of the other, or
\* of both
TierLabelStores ==
    {PlainStore(ChainObjects, l, [p \in ChainLine |-> 100]) :
        l \in [ChainLine -> {{"GenericAll"}, {"WriteDacl"}, {"GenericAll", "WriteDacl"}}]}

\* a first and a middle edge policy, a node budget
TierEdgeOptions ==
    {[DefaultOptions(ChainObjects, {"T"}) EXCEPT
         !.EdgesFirst = f, !.EdgesMiddle = m, !.NodeLimit = l] :
        f \in {{"GenericAll"}, {"WriteDacl"}, AllEdgesBitmap},
        m \in {{"GenericAll"}, {"WriteDacl"}, AllEdgesBitmap}, l \in 0..1}

\* the line with edges of one kind and objects of either type
TierTypeStores ==
    {[PlainStore(ChainObjects, [p \in ChainLine |-> {"GenericAll"}],
                 [p \in ChainLine |-> 100]) EXCEPT !.type = ty] :
        ty \in [ChainObjects -> Types]}

\* the type sets of the three tiers: ObjectTypesFirst nil, empty or of one type
\* (line 160 takes the map as it is), the other two empty or of one type
TierTypeOptions ==
    {[DefaultOptions(ChainObjects, {"T"}) EXCEPT
         !.ObjectTypesFirst = f, !.ObjectTypesMiddle = m, !.ObjectTypesLast = l] :
        f \in {[isnil |-> TRUE, types |-> {}], [isnil |-> FALSE, types |-> {}],
               [isnil |-> FALSE, types |-> {"User"}], [isnil |-> FALSE, types |-> {"Group"}]},
        m \in {{}, {"User"}, {"Group"}}, l \in {{}, {"User"}}}

InitTier ==
    \/ \E st \in TierLabelStores, op \in TierEdgeOptions : Entry(st, op)
    \/ \E st \in TierTypeStores, op \in TierTypeOptions : Entry(st, op)

\* Analyze on the line under the edge and type policies of the tiers
SpecTier == InitTier /\ [][Next]_vars

\* the edges from a chain object to one nearer to T, and one from T to the far end
BudgetTemplate ==
    {<<ChainNames[q[2]], ChainNames[q[1]]>> :
        q \in {r \in (1..MaxChain) \X (1..MaxChain) : r[1] < r[2]}}
    \cup {<<"T", ChainNames[MaxChain]>>}

\* every store made of edges of the template
BudgetStores ==
    {PlainStore(ChainObjects, [p \in e |-> {"GenericAll"}], [p \in e |-> 100]) :
        e \in SUBSET BudgetTemplate}

\* a node budget below the number of objects, either direction, backlinks or not
BudgetOptions ==
    {[DefaultOptions(ChainObjects, {"T"}) EXCEPT
         !.NodeLimit = l, !.Direction = d, !.Backlinks = b] :
        l \in 1..(MaxChain - 1), d \in {In, Out}, b \in 0..1}

InitBudget == \E st \in BudgetStores, op \in BudgetOptions : Entry(st, op)

\* Analyze with a node budget on the layered stores
SpecBudget == InitBudget /\ [][Next]_vars

\* the small stars, their other candidates ranked
FineStars ==
    {StarStore(g, u, TRUE) : g \in 0..MaxGroups, u \in 0..MaxOthers}

\* the stores with cycles and the stars, for the run taken step by step
InitFine ==
    \/ \E st \in LoopStores, op \in LoopOptions : Entry(st, op)
    \/ \E st \in FineStars, c \in -1..MaxCap, sortby \in BOOLEAN :
          Entry(st, StarOptions(st.objects, c, sortby, 0))

NextFine ==
    \/ Seed
    \/ StartRound
    \/ \E n \in store.objects : BeginTurn(n)
    \/ \E m \in store.objects : RangeEdge(m)
    \/ CommitTurn
    \/ EndRound
    \/ TrimPass
    \/ BudgetPass
    \/ PruneIslands
    \/ Finalize

\* Analyze with the turn of a node taken one neighbour at a time
SpecFine == InitFine /\ [][NextFine]_vars


----------------------------------------------------------------------------
(* ParseQueryFromPOST, lines 58-114: the options of a request *)

\* the defaulting done as soon as one of the three is empty
DefaultEdgesIfAnyEmpty(aoo) ==
    IF aoo.EdgesFirst = {} \/ aoo.EdgesMiddle = {} \/ aoo.EdgesLast = {}
    THEN [aoo EXCEPT !.EdgesFirst = AllEdgesBitmap, !.EdgesMiddle = AllEdgesBitmap,
                     !.EdgesLast = AllEdgesBitmap]
    ELSE aoo

\* lines 91-97: all edges when the request names none
DefaultEdges(aoo) ==
    IF Cardinality(aoo.EdgesFirst) = 0 /\ Cardinality(aoo.EdgesMiddle) = 0
          /\ Cardinality(aoo.EdgesLast) = 0
    THEN [aoo EXCEPT !.EdgesFirst = AllEdgesBitmap, !.EdgesMiddle = AllEdgesBitmap,
                     !.EdgesLast = AllEdgesBitmap]
    ELSE aoo

\* lines 58-113: opts holds what qd.AnalysisOptions made of the query; the node
\* limit of the request and the default of the edges are added to it
ParseQueryFromPOST ==
    /\ pc = "post"
    /\ opts' = DefaultEdges([opts EXCEPT !.NodeLimit = hist.request.nodelimit])
    /\ pc' = "seed"
    /\ UNCHANGED <<store, nodes, gedges, nd, extrainfo, currentRound, visited,
                   nodesatstartofround, detectedges, detectobjecttypes, totalnodes,
                   lefttoremove, warned, Removed, hist>>
    /\ UNCHANGED turn

\* the edge bitmaps a request may name
RequestEdges == {{}, {"GenericAll"}, {"WriteDacl"}, AllEdgesBitmap}

Requests ==
    [EdgesFirst : RequestEdges, EdgesMiddle : RequestEdges, EdgesLast : RequestEdges,
     nodelimit : 0..1]

\* the chain B -> C -> T, each edge of one of the three kinds
RequestStores ==
    {TriangleStore(l) : l \in [{<<"B", "C">>, <<"C", "T">>} ->
                                  {{"GenericAll"}, {"WriteDacl"}, {EdgeMemberOfGroup}}]}

\* the state when a request for the seed T comes in
InitPost ==
    \E st \in RequestStores, req \in Requests :
        /\ store = st
        /\ opts = [DefaultOptions(st.objects, {"T"}) EXCEPT
                      !.EdgesFirst = req.EdgesFirst, !.EdgesMiddle = req.EdgesMiddle,
                      !.EdgesLast = req.EdgesLast]
        /\ pc = "post"
        /\ nodes = {}
        /\ gedges = << >>
        /\ nd = << >>
        /\ extrainfo = [o \in st.objects |-> Nil]
        /\ currentRound = 1
        /\ visited = {}
        /\ nodesatstartofround = 0
        /\ detectedges = {}
        /\ detectobjecttypes = [isnil |-> TRUE, types |-> {}]
        /\ totalnodes = 0
        /\ lefttoremove = 0
        /\ warned = FALSE
        /\ Removed = 0
        /\ turn = NoTurn
        /\ hist = [NoHistory(st.objects) EXCEPT !.request = req]

NextPost ==
    \/ ParseQueryFromPOST
    \/ Next

\* a request parsed and analyzed
SpecPost == InitPost /\ [][NextPost]_vars


----------------------------------------------------------------------------
(* Two calls of Analyze, the second on a store and options fixed beforehand *)

\* what a call returns (lines 523-526)
AnalysisResults == [nodes |-> nodes, gedges |-> gedges, nd |-> nd, Removed |-> Removed]

\* the nodes marked "target" in a result
TargetsOf(result) == {n \in result.nodes : result.nd[n].target}

\* the options of the second call: those planned, seeded with the targets of
\* the first result when the plan says so
SecondOptions ==
    IF hist.second.reseed
    THEN [hist.second.opts EXCEPT !.FilterFirst = TargetsOf(AnalysisResults)]
    ELSE hist.second.opts

\* the first call has returned and Analyze is entered again (lines 136-142): a
\* new graph, a new extrainfo, round 1
CallAgain ==
    /\ pc = "done"
    /\ hist.call = 1
    /\ hist.second # << >>
    /\ store' = hist.second.store
    /\ opts' = SecondOptions
    /\ pc' = "seed"
    /\ nodes' = {}
    /\ gedges' = << >>
    /\ nd' = << >>
    /\ extrainfo' = [o \in hist.second.store.objects |-> Nil]
    /\ currentRound' = 1
    /\ visited' = {}
    /\ nodesatstartofround' = 0
    /\ detectedges' = {}
    /\ detectobjecttypes' = [isnil |-> TRUE, types |-> {}]
    /\ totalnodes' = 0
    /\ lefttoremove' = 0
    /\ warned' = FALSE
    /\ Removed' = 0
    /\ turn' = NoTurn
    /\ hist' = [NoHistory(hist.second.store.objects) EXCEPT
                   !.call = 2,
                   !.second = hist.second,
                   !.first = [result |-> AnalysisResults, store |-> store, opts |-> opts,
                              hist |-> hist]]

NextTwice ==
    \/ Next
    \/ CallAgain

\* a first call on st with op, to be followed by a second on st2 with op2
EntryTwice(st, op, st2, op2, reseed) ==
    /\ store = st
    /\ opts = op
    /\ pc = "seed"
    /\ nodes = {}
    /\ gedges = << >>
    /\ nd = << >>
    /\ extrainfo = [o \in st.objects |-> Nil]
    /\ currentRound = 1
    /\ visited = {}
    /\ nodesatstartofround = 0
    /\ detectedges = {}
    /\ detectobjecttypes = [isnil |-> TRUE, types |-> {}]
    /\ totalnodes = 0
    /\ lefttoremove = 0
    /\ warned = FALSE
    /\ Removed = 0
    /\ turn = NoTurn
    /\ hist = [NoHistory(st.objects) EXCEPT
                  !.second = [store |-> st2, opts |-> op2, reseed |-> reseed]]

\* both calls have returned
BothDone == pc = "done" /\ hist.call = 2


\* one or two seeds, either direction, the limiter, the island prune, backlinks
ReseedOptions ==
    {[DefaultOptions(TriangleObjects, s) EXCEPT
         !.Direction = d, !.NodeLimit = l, !.PruneIslands = i, !.Backlinks = b] :
        s \in {{"T"}, {"T", "C"}}, d \in {In, Out}, l \in 0..1, i \in BOOLEAN, b \in 0..1}

\* Analyze, and then Analyze again on the same store with the same options but
\* the targets of the first result as seeds
InitReseed ==
    \E st \in TriangleStoresOneKind, op \in ReseedOptions : EntryTwice(st, op, st, op, TRUE)

SpecReseed == InitReseed /\ [][NextTwice]_vars


\* the stores over T, C and B with edges of two kinds, C being Everyone
DualStores ==
    {[st EXCEPT !.sid = [o \in TriangleObjects |-> IF o = "C" THEN EveryoneSID ELSE NullSID]] :
        st \in TriangleStoresTwoKinds}

\* DontExpandAUEO off; one or two seeds, the last tier open or restricted to one
\* kind, the limiter, backlinks
DualOptions ==
    {[DefaultOptions(TriangleObjects, s) EXCEPT
         !.DontExpandAUEO = FALSE, !.EdgesLast = e, !.NodeLimit = l, !.Backlinks = b] :
        s \in {{"T"}, {"T", "C"}}, e \in {AllEdgesBitmap, {"GenericAll"}}, l \in 0..1,
        b \in 0..1}

\* Analyze with Direction = Out on a store, and then with Direction = In on the
\* store with every edge turned around
InitDual ==
    \E st \in DualStores, op \in DualOptions :
        EntryTwice(st, [op EXCEPT !.Direction = Out],
                   ReversedStore(st), [op EXCEPT !.Direction = In], FALSE)

SpecDual == InitDual /\ [][NextTwice]_vars


\* the stores over T, C and B in which at most one edge is of the second kind;
\* a WriteDacl edge has probability 50, a GenericAll edge 100
RelaxLabels(e) ==
    {[p \in e |-> {"GenericAll"}]}
        \cup {[p \in e |-> IF p = w THEN {"WriteDacl"} ELSE {"GenericAll"}] : w \in e}

RelaxStores ==
    UNION {{[TriangleStore(l) EXCEPT
                !.prob = [p \in e |-> IF l[p] = {"WriteDacl"} THEN 50 ELSE 100]] :
               l \in RelaxLabels(e)} : e \in TriangleEdgeSets}

\* the options both calls share: one or two seeds; a last tier that rejects
\* nothing, with and without the island prune, or one that rejects an edge kind,
\* or one that rejects C; and two seeds under a node budget
RelaxContexts ==
    LET base(s) == DefaultOptions(TriangleObjects, s)
    IN UNION {{base(s),
               [base(s) EXCEPT !.PruneIslands = TRUE],
               [base(s) EXCEPT !.EdgesLast = {"GenericAll"}],
               [base(s) EXCEPT !.FilterLast = TriangleObjects \ {"C"}]} :
                 s \in {{"T"}, {"T", "C"}}}
           \cup {[base({"T", "C"}) EXCEPT !.NodeLimit = 1]}

\* a stricter and a more permissive configuration made from c: one filter
\* relaxed, or the four of the expansion at once
Relaxations(c) ==
    {<<[c EXCEPT !.EdgesFirst = {"GenericAll"}], c>>,
     <<[c EXCEPT !.EdgesMiddle = {"GenericAll"}], c>>,
     <<[c EXCEPT !.MinEdgeProbability = 60], c>>,
     <<[c EXCEPT !.MaxDepth = 0], c>>,
     <<[c EXCEPT !.MaxDepth = 1], [c EXCEPT !.MaxDepth = 2]>>,
     <<[c EXCEPT !.EdgesLast = {"GenericAll"}], [c EXCEPT !.EdgesLast = AllEdgesBitmap]>>,
     <<[c EXCEPT !.EdgesFirst = {"GenericAll"}, !.EdgesMiddle = {"GenericAll"},
                 !.MinEdgeProbability = 60, !.MaxDepth = 1], c>>}

\* Analyze under a configuration, and then on the same store under a more
\* permissive one
InitRelaxed ==
    \E st \in RelaxStores, c \in RelaxContexts :
        \E pr \in Relaxations(c) : EntryTwice(st, pr[1], st, pr[2], FALSE)

SpecRelaxed == InitRelaxed /\ [][NextTwice]_vars


----------------------------------------------------------------------------
(* Helpers of the properties *)

AtEndOfExpansion == pc = "trim" /\ hist.trimPasses = 0

ExpansionOver == pc \notin {"seed", "round", "nodes"}

SetMax(S) == CHOOSE x \in S : \A y \in S : y <= x

\* the nodes a committed edge joins n to, on the side of the seeds
NearSide(n) ==
    IF opts.Direction = In
    THEN {p[2] : p \in {q \in DOMAIN gedges : q[1] = n}}
    ELSE {p[1] : p \in {q \in DOMAIN gedges : q[2] = n}}

RECURSIVE BestPath(_, _)
\* the largest product of probabilities (in units of 1/AccOne) over the paths of
\* committed edges of length <= k that join n to a seed; -1 when there is none
BestPath(n, k) ==
    IF n \in opts.FilterFirst THEN AccOne
    ELSE IF k <= 0 THEN -1
    ELSE SetMax({-1} \cup
            {LET b == BestPath(q, k - 1)
                 pair == StorePair(q, n)
             IN IF b < 0 THEN -1 ELSE (b * MaxProbability(gedges[pair], pair)) \div 100 :
             q \in NearSide(n) \ {n}})

RECURSIVE StoreReach(_)
\* the objects within k edges of a seed in the store, along Direction
StoreReach(k) ==
    IF k <= 0 THEN opts.FilterFirst
    ELSE LET r == StoreReach(k - 1)
         IN r \cup UNION {Neighbours(n) : n \in r}

Rounds(ns) == [n \in ns |-> extrainfo[n].processRound]

----------------------------------------------------------------------------
(* Properties of the expansion *)

\* the store A -> B -> C -> T with every probability 100 (scenario 2)
IsLineStore ==
    /\ DOMAIN store.edges = {<<"A", "B">>, <<"B", "C">>, <<"C", "T">>}
    /\ \A p \in DOMAIN store.edges : store.prob[p] = 100

LineScenario ==
    /\ IsLineStore
    /\ opts = [DefaultOptions(store.objects, {"T"}) EXCEPT !.MaxDepth = 2]

\* C8: with MaxDepth = d >= 0 exactly the rounds 1..d are run (fewer if a round
\* adds no node), every node has processRound <= d+1, no node farther than d from
\* every seed is in the graph, and the chain A->B->C->T with seed T, In and
\* MaxDepth 2 yields nodes {T,C,B}, edges {C->T, B->C}, rounds T=1, C=2, B=3
DepthLimit ==
    opts.MaxDepth >= 0 =>
        /\ \A n \in nodes : extrainfo[n].processRound <= opts.MaxDepth + 1
        /\ nodes \subseteq StoreReach(opts.MaxDepth)
        /\ pc = "nodes" => currentRound <= opts.MaxDepth
        /\ ExpansionOver =>
              /\ hist.roundsRun <= opts.MaxDepth
              /\ hist.roundsRun < opts.MaxDepth => nodesatstartofround = hist.orderAfterExpansion
        /\ LineScenario /\ pc = "done" =>
              /\ nodes = {"T", "C", "B"}
              /\ DOMAIN gedges = {<<"C", "T">>, <<"B", "C">>}
              /\ Rounds(nodes) = [n \in {"T", "C", "B"} |->
                                    IF n = "T" THEN 1 ELSE IF n = "C" THEN 2 ELSE 3]

\* the chain of scenario 2 has been analyzed and cut after two rounds
DepthLimitReached ==
    /\ LineScenario
    /\ pc = "done"
    /\ hist.roundsRun = 2
    /\ "A" \notin nodes
    /\ "B" \in nodes

\* the store T <-(50)- C <-(50)- B (scenario 3)
IsHalvingStore ==
    /\ DOMAIN store.edges = {<<"C", "T">>, <<"B", "C">>}
    /\ \A p \in DOMAIN store.edges : store.prob[p] = 50

HalvingScenario(a) ==
    /\ IsHalvingStore
    /\ opts = [DefaultOptions(store.objects, {"T"}) EXCEPT !.MinAccumulatedProbability = a]

\* C9: a candidate is recorded only if its probability p >= MinEdgeProbability
\* and acc(n) * p/100 >= MinAccumulatedProbability/100; on T <-(50)- C <-(50)- B
\* with seed T a threshold of 30 yields {T, C} and a threshold of 60 yields {T}
ProbabilityGates ==
    /\ \A r \in hist.recorded :
          /\ r[3] >= opts.MinEdgeProbability
          /\ ((r[4] * r[3]) \div 100) * 100 >= opts.MinAccumulatedProbability * AccOne
    /\ HalvingScenario(30) /\ pc = "done" => nodes = {"T", "C"}
    /\ HalvingScenario(60) /\ pc = "done" => nodes = {"T"}

\* scenario 3 has run with threshold 30: C was recorded and B turned down
ProbabilityGatesReached ==
    /\ HalvingScenario(30)
    /\ pc = "done"
    /\ <<"T", "C", 50, AccOne>> \in hist.recorded
    /\ "B" \notin nodes

\* there is a path of committed edges from n to a seed that is no longer than
\* processRound - 1 and whose product of probabilities reaches the threshold
HasDiscoveryPath(n) ==
    LET b == BestPath(n, extrainfo[n].processRound - 1)
    IN b >= 0 /\ b * 100 >= opts.MinAccumulatedProbability * AccOne

\* C4 as claimed: at the end of expansion every non-seed node has such a path, in
\* every configuration, a finite MaxOutgoingConnections included
DiscoveryPathAlways ==
    AtEndOfExpansion => \A n \in nodes \ opts.FilterFirst : HasDiscoveryPath(n)

\* C4, amended: at the end of an expansion in which the degree cap fired for no
\* node (always so with MaxOutgoingConnections = -1), every non-seed node has a
\* path of committed edges to a seed of length <= processRound - 1 whose product
\* of probabilities is >= MinAccumulatedProbability/100, Backlinks > 0 included
DiscoveryPathUncapped ==
    AtEndOfExpansion /\ hist.capFired = {} =>
        \A n \in nodes \ opts.FilterFirst : HasDiscoveryPath(n)

\* an uncapped expansion with backlinks and a threshold ended with a node two
\* edges from the seed
DiscoveryPathReached ==
    /\ AtEndOfExpansion
    /\ hist.capFired = {}
    /\ opts.Backlinks > 0
    /\ opts.MinAccumulatedProbability = 30
    /\ \E n \in nodes : extrainfo[n].processRound = 3 /\ HasDiscoveryPath(n)

----------------------------------------------------------------------------
(* Properties of the post-filter phases *)

\* C1 as claimed: Removed is the node count at the end of expansion minus the
\* node count of the returned graph
RemovedSinceExpansion ==
    pc = "done" => Removed = hist.orderAfterExpansion - Order

\* C1, amended: Removed is the node count at the end of expansion, minus the
\* number of nodes the outer-layer trim deleted, minus the node count of the
\* returned graph: the node-budget and island deletions are counted, the
\* deletions of the trim are not
RemovedExcludesTrim ==
    pc = "done" => Removed = hist.orderAfterExpansion - Cardinality(hist.trimDeleted) - Order

\* a run in which the trim, the limiter and the island prune all deleted nodes
RemovedExcludesTrimReached ==
    /\ pc = "done"
    /\ hist.trimDeleted # {}
    /\ hist.budgetDeleted # {}
    /\ hist.islandDeleted # {}

\* C2: Removed is the node count right after the trim fixpoint minus the node
\* count of the returned graph
RemovedSinceTrim ==
    pc = "done" => Removed = hist.orderAfterTrim - Order

\* a run that lost nodes to the trim and returned Removed > 0
RemovedSinceTrimReached ==
    /\ pc = "done"
    /\ hist.orderAfterExpansion > hist.orderAfterTrim
    /\ Removed > 0

\* C3 as claimed: Removed is the number of nodes the node limiter deleted, and
\* is 0 when NodeLimit = 0 or the trimmed graph fits, PruneIslands or not
RemovedIsLimiterCount ==
    pc = "done" =>
        /\ Removed = Cardinality(hist.budgetDeleted)
        /\ opts.NodeLimit = 0 \/ hist.orderAfterTrim <= opts.NodeLimit => Removed = 0

\* the incident edges of a node
IncidentEdges(o) == {p \in DOMAIN gedges : p[1] = o \/ p[2] = o}

\* the three conditions of the last tier on an outer node and its edges
LastTierAccepts(o) ==
    /\ \A p \in IncidentEdges(o) : opts.EdgesLast \cap gedges[p] # {}
    /\ opts.ObjectTypesLast # {} => store.type[o] \in opts.ObjectTypesLast
    /\ o \in opts.FilterLast

\* the trim loop has just ended
AtTrimFixpoint == pc \in {"budget", "islands"} /\ hist.budgetPasses = 0

\* C5 as claimed: at the trim fixpoint every outer node satisfies the three
\* conditions of the last tier
OuterNodesPassLastTier ==
    AtTrimFixpoint => \A o \in OuterNodes(nodes, gedges) : LastTierAccepts(o)

\* C5, amended: at the trim fixpoint every outer node that has at least one
\* incident edge satisfies the three conditions of the last tier (an outer node
\* without any edge is never examined)
ConnectedOuterNodesPassLastTier ==
    AtTrimFixpoint =>
        \A o \in OuterNodes(nodes, gedges) : IncidentEdges(o) # {} => LastTierAccepts(o)

\* a fixpoint reached after deletions, under a restricted last tier, that keeps a
\* connected outer node
ConnectedOuterNodesReached ==
    /\ AtTrimFixpoint
    /\ hist.trimDeleted # {}
    /\ opts.ObjectTypesLast # {} \/ opts.FilterLast # store.objects \/ opts.EdgesLast # AllEdgesBitmap
    /\ \E o \in OuterNodes(nodes, gedges) : IncidentEdges(o) # {}

\* the node-budget prune phase is over
AfterBudget == pc = "islands"

\* C6: with NodeLimit > 0, after the node-budget prune the graph has at most
\* NodeLimit nodes or the warning was emitted, and the warning is emitted only
\* by a pass that found no outer node
BudgetReachedOrWarned ==
    /\ AfterBudget /\ opts.NodeLimit > 0 => Order <= opts.NodeLimit \/ warned
    /\ warned => hist.outerAtWarning = {} /\ hist.budgetPasses > 0

\* the limiter cut a graph down to NodeLimit
BudgetReachedOrWarnedReached ==
    /\ AfterBudget
    /\ opts.NodeLimit > 0
    /\ hist.budgetDeleted # {}
    /\ Order = opts.NodeLimit

\* C7: with PruneIslands the returned graph has no node of degree 0; a result
\* of isolated seeds only is returned empty
NoIslandsReturned ==
    pc = "done" /\ opts.PruneIslands =>
        /\ \A n \in nodes : IncidentEdges(n) # {}
        /\ DOMAIN gedges = {} => nodes = {}

\* isolated seeds were pruned and the empty graph returned
NoIslandsReturnedReached ==
    /\ pc = "done"
    /\ opts.PruneIslands
    /\ hist.islandDeleted = opts.FilterFirst
    /\ nodes = {}

----------------------------------------------------------------------------
(* Properties of the degree cap *)

\* scenario 4: 5 group candidates, 10 others, MaxOutgoingConnections = 6
StarScenario ==
    /\ Cardinality(store.objects) = 16
    /\ opts.MaxOutgoingConnections = 6

\* C10 as claimed: when the cap fires for a node with g < cap group candidates,
\* the g group edges and then further candidates are committed until cap edges
\* are committed, SortBy set or not, and canexpand is the number of candidates
\* not committed; scenario 4 commits 6 edges and marks the node "canexpand" 9
CapCommitsUpToCap ==
    /\ \A n \in store.objects :
          hist.cap[n].fired /\ hist.cap[n].groups < opts.MaxOutgoingConnections =>
              /\ hist.cap[n].committed = opts.MaxOutgoingConnections
              /\ hist.cap[n].canexpand = hist.cap[n].candidates - hist.cap[n].committed
    /\ StarScenario /\ pc = "done" =>
          /\ Cardinality(DOMAIN gedges) = 6
          /\ nd["T"].canexpand = 9

----------------------------------------------------------------------------
(* Properties of the AU/EO guard *)

WellKnown(n) == store.sid[n] \in {EveryoneSID, AuthenticatedUsersSID}

Guarded == opts.Direction = In /\ opts.DontExpandAUEO

\* scenario 5: B -> C -> T in the store, C being Everyone or Authenticated Users,
\* the seed T and everything else at its default but the guard
GuardScenario(d, g) ==
    /\ DOMAIN store.edges = (IF d = In THEN {<<"B", "C">>, <<"C", "T">>}
                                       ELSE {<<"C", "B">>, <<"T", "C">>})
    /\ WellKnown("C")
    /\ opts = [DefaultOptions(store.objects, {"T"}) EXCEPT !.Direction = d, !.DontExpandAUEO = g]

\* C11: with Direction = In and DontExpandAUEO a node whose SID is Everyone or
\* Authenticated Users is never expanded, seed or not, and no edge whose target
\* is that node is ever committed, though it may be the source of an edge;
\* otherwise every node that gets its turn in a round has its edges enumerated,
\* so Everyone's predecessors (successors for Out) are found too
GuardNeverExpands ==
    /\ Guarded =>
          \A n \in store.objects : WellKnown(n) =>
              /\ n \notin hist.expanded
              /\ \A p \in DOMAIN gedges : p[2] # n
    /\ ~Guarded /\ pc = "nodes" => visited \subseteq hist.expanded
    /\ GuardScenario(In, TRUE) /\ pc = "done" =>
          nodes = {"T", "C"} /\ DOMAIN gedges = {<<"C", "T">>}
    /\ GuardScenario(In, FALSE) /\ pc = "done" =>
          nodes = {"T", "C", "B"} /\ DOMAIN gedges = {<<"C", "T">>, <<"B", "C">>}
    /\ GuardScenario(Out, TRUE) /\ pc = "done" =>
          nodes = {"T", "C", "B"} /\ DOMAIN gedges = {<<"T", "C">>, <<"C", "B">>}

\* the guard was on, Everyone was added as a predecessor of the seed and had its
\* turn in round 2, and its own predecessor in the store stayed out of the graph
GuardNeverExpandsReached ==
    /\ Guarded
    /\ pc = "done"
    /\ "C" \in nodes \ opts.FilterFirst
    /\ <<"C", "T">> \in DOMAIN gedges
    /\ <<"B", "C">> \in DOMAIN store.edges
    /\ "B" \notin nodes
    /\ hist.roundsRun = 2

----------------------------------------------------------------------------
(* Properties of the trim, the marks and the result *)

\* scenario 6, with the names of these stores: the chain B -> C -> T of edges of
\* a kind EdgesLast excludes, the seed T, Direction = In
CascadeScenario ==
    /\ store.edges = [p \in {<<"B", "C">>, <<"C", "T">>} |-> {"WriteDacl"}]
    /\ opts = [DefaultOptions(store.objects, {"T"}) EXCEPT !.EdgesLast = {"GenericAll"}]

\* C12: a pass of the trim deletes only nodes that were outer when it began, the
\* loop ends with a pass that deletes nothing, and on the chain of scenario 6 the
\* far end goes in pass 1, the middle node in pass 2 and not earlier, and the
\* seed alone is left
TrimCascades ==
    /\ hist.trimInner = {}
    /\ AtTrimFixpoint => TrimDeletes = {}
    /\ CascadeScenario =>
          /\ hist.trimPasses >= 1 => hist.trimPassOf["B"] = 1
          /\ hist.trimPasses = 1 => nodes = {"T", "C"}
          /\ hist.trimPasses >= 2 => hist.trimPassOf["C"] = 2 /\ nodes = {"T"}
          /\ pc = "done" => hist.trimPasses = 3 /\ DOMAIN gedges = {}

\* the chain of scenario 6 was trimmed down to its seed in three passes
TrimCascadesReached ==
    /\ CascadeScenario
    /\ pc = "done"
    /\ hist.trimDeleted = {"B", "C"}
    /\ nodes = {"T"}

\* scenario 1: one seed, no candidate accepted, no island prune
TrivialScenario ==
    /\ Cardinality(opts.FilterFirst) = 1
    /\ ~opts.PruneIslands
    /\ hist.recorded = {}

\* C13: in the returned graph a node is marked "source" exactly when it is an
\* outer node of that graph and "target" exactly when it matched FilterFirst; a
\* single seed without any accepted edge comes back alone, marked both, with no
\* edge and Removed = 0
MarksOfResult ==
    pc = "done" =>
        /\ \A n \in nodes :
              /\ nd[n].source <=> n \in OuterNodes(nodes, gedges)
              /\ nd[n].target <=> n \in opts.FilterFirst
        /\ TrivialScenario =>
              /\ nodes = opts.FilterFirst
              /\ \A n \in nodes : nd[n].target /\ nd[n].source
              /\ DOMAIN gedges = {}
              /\ Removed = 0
              /\ turn = NoTurn

\* a returned graph, cut by the limiter, with a seed that is no outer node and
\* an outer node that is no seed
MarksOfResultReached ==
    /\ pc = "done"
    /\ hist.budgetDeleted # {}
    /\ \E n \in nodes : nd[n].target /\ ~nd[n].source
    /\ \E n \in nodes : nd[n].source /\ ~nd[n].target

----------------------------------------------------------------------------
(* Termination and totality *)

\* the three loops have run no longer than the number of objects allows
LoopsBounded ==
    LET n == Cardinality(store.objects)
    IN /\ currentRound <= n + 1
       /\ hist.roundsRun <= n + 1
       /\ hist.trimPasses <= n + 1
       /\ hist.budgetPasses <= n

\* C14: Analyze terminates on every store and configuration, MaxDepth = -1 with
\* Backlinks > 0 on stores with cycles included: the expansion runs at most
\* (number of objects + 1) rounds, the trim reaches a pass that deletes nothing,
\* the node-budget loop ends and the result is returned
AnalyzeTerminates == []LoopsBounded /\ <>(pc = "done")

\* a run without depth limit and with backlinks, on a store with a cycle whose
\* edges were both committed, went through three rounds, a trim of one pass and
\* the limiter, and returned
AnalyzeTerminatesReached ==
    /\ pc = "done"
    /\ opts.MaxDepth = -1
    /\ opts.Backlinks > 0
    /\ hist.roundsRun = 3
    /\ hist.trimPasses > 0
    /\ hist.budgetPasses > 0
    /\ \E p \in DOMAIN store.edges :
          /\ p[1] # p[2]
          /\ <<p[2], p[1]>> \in DOMAIN store.edges
          /\ {p[1], p[2]} \subseteq hist.expanded

\* C20: Analyze is total: no lookup of extrainfo for a node of the working graph
\* yields a missing entry, because from the seeding on every node of the graph
\* has a GraphNode with processRound >= 1
AnalyzeIsTotal ==
    /\ pc # "panic"
    /\ pc # "seed" =>
          \A n \in nodes : extrainfo[n].present /\ extrainfo[n].processRound >= 1

\* a run that found nodes in rounds 1 and 2, took them through the range loop
\* of a third round and through the node-budget prune, and returned
AnalyzeIsTotalReached ==
    /\ pc = "done"
    /\ hist.roundsRun = 3
    /\ hist.budgetPasses > 0
    /\ \E n \in store.objects : extrainfo[n].processRound = 3

----------------------------------------------------------------------------
(* Self-loops *)

\* C19 as claimed: no edge of the working graph, at any point and in the result,
\* joins a node to itself, also when the store has an object with an edge to
\* itself
NoSelfLoop == \A p \in DOMAIN gedges : p[1] # p[2]

----------------------------------------------------------------------------
(* Properties of the defaults *)

NoEdgesRequested ==
    hist.request.EdgesFirst = {} /\ hist.request.EdgesMiddle = {} /\ hist.request.EdgesLast = {}

\* C18: a request with EdgesFirst, EdgesMiddle and EdgesLast all empty is
\* analyzed as if all three were the universe of edge kinds (the whole chain is
\* returned); with at least one of them non-empty none of the three is changed
EdgesDefaultToUniverse ==
    pc # "post" =>
        /\ NoEdgesRequested =>
              /\ opts.EdgesFirst = AllEdgesBitmap
              /\ opts.EdgesMiddle = AllEdgesBitmap
              /\ opts.EdgesLast = AllEdgesBitmap
              /\ pc = "nodes" => detectedges = AllEdgesBitmap
              /\ pc = "done" /\ opts.NodeLimit = 0 =>
                    nodes = store.objects /\ gedges = store.edges
        /\ ~NoEdgesRequested =>
              /\ opts.EdgesFirst = hist.request.EdgesFirst
              /\ opts.EdgesMiddle = hist.request.EdgesMiddle
              /\ opts.EdgesLast = hist.request.EdgesLast
              /\ pc = "nodes" =>
                    detectedges = (IF currentRound = 1 THEN hist.request.EdgesFirst
                                                       ELSE hist.request.EdgesMiddle)

\* a request without edges returned the whole chain, its edges of two kinds
EdgesDefaultToUniverseReached ==
    /\ pc = "done"
    /\ NoEdgesRequested
    /\ nodes = store.objects
    /\ store.edges[<<"B", "C">>] # store.edges[<<"C", "T">>]

----------------------------------------------------------------------------
(* Laws: two calls compared *)

\* nothing in a run with these options is left to the order of iteration: no
\* degree cap, no limiter, no backlinks, no threshold on the accumulated
\* probability (and, in the stores checked, no two objects with the same SID)
OrderFree(op) ==
    /\ op.MaxOutgoingConnections = -1
    /\ op.NodeLimit = 0
    /\ op.Backlinks = 0
    /\ op.MinAccumulatedProbability = 0

Mirrored ==
    /\ nodes = hist.first.result.nodes
    /\ nd = hist.first.result.nd
    /\ DOMAIN gedges = {<<p[2], p[1]>> : p \in DOMAIN hist.first.result.gedges}
    /\ \A p \in DOMAIN gedges : gedges[p] = hist.first.result.gedges[<<p[2], p[1]>>]

\* the two calls are of the dual pair: Out on a store, In on its reverse, the
\* guard off
DualCalls ==
    /\ BothDone
    /\ ~hist.second.reseed
    /\ ~opts.DontExpandAUEO
    /\ opts.Direction = In
    /\ hist.first.opts.Direction = Out
    /\ store = ReversedStore(hist.first.store)

IsPrefix(a, b) == Len(a) <= Len(b) /\ SubSeq(b, 1, Len(a)) = a

\* the iteration of the second call has so far made the choices of the first
FollowsFirst == hist.call = 2 /\ IsPrefix(hist.choices, hist.first.hist.choices)

\* whatever the first call chose, the second call can choose the same: while it
\* follows the first it has a step that still follows it
SecondCanFollow ==
    FollowsFirst /\ pc # "done"
        => ENABLED (Next /\ IsPrefix(hist'.choices, hist.first.hist.choices))

\* C16: with DontExpandAUEO = false, Direction = In on the reversed store
\* returns the mirror image of what Direction = Out returns on the store, when
\* the options leave nothing to the order of iteration or when the iteration
\* made the same choices in both calls; and the second call can always make the
\* choices of the first, to the end
DirectionDuality ==
    /\ DualCalls /\ (OrderFree(opts) \/ hist.choices = hist.first.hist.choices) => Mirrored
    /\ SecondCanFollow
    /\ DualCalls /\ FollowsFirst => hist.choices = hist.first.hist.choices

\* both calls expanded Everyone, lost a node to the trim and returned mirror
\* images of two edges, one of them of the kind EdgesLast excludes
DirectionDualityReached ==
    /\ DualCalls
    /\ Mirrored
    /\ "C" \in hist.expanded
    /\ "C" \in hist.first.hist.expanded
    /\ hist.trimDeleted # {}
    /\ hist.first.hist.trimDeleted # {}
    /\ Cardinality(DOMAIN gedges) = 2
    /\ \E p \in DOMAIN gedges : gedges[p] = {"WriteDacl"}

\* a depth limit at least as large (-1 is no limit)
DepthAtLeast(a, b) == b = -1 \/ (a # -1 /\ b >= a)

\* configuration b is a with filters relaxed: wider edge sets, a larger depth, a
\* higher cap, lower thresholds, everything else the same
MorePermissive(a, b) ==
    /\ a.EdgesFirst \subseteq b.EdgesFirst
    /\ a.EdgesMiddle \subseteq b.EdgesMiddle
    /\ a.EdgesLast \subseteq b.EdgesLast
    /\ DepthAtLeast(a.MaxDepth, b.MaxDepth)
    /\ DepthAtLeast(a.MaxOutgoingConnections, b.MaxOutgoingConnections)
    /\ b.MinEdgeProbability <= a.MinEdgeProbability
    /\ b.MinAccumulatedProbability <= a.MinAccumulatedProbability
    /\ [b EXCEPT !.EdgesFirst = a.EdgesFirst, !.EdgesMiddle = a.EdgesMiddle,
                 !.EdgesLast = a.EdgesLast, !.MaxDepth = a.MaxDepth,
                 !.MaxOutgoingConnections = a.MaxOutgoingConnections,
                 !.MinEdgeProbability = a.MinEdgeProbability,
                 !.MinAccumulatedProbability = a.MinAccumulatedProbability] = a

\* the two calls are on one store, the second under a more permissive
\* configuration
RelaxedCalls ==
    /\ BothDone
    /\ ~hist.second.reseed
    /\ store = hist.first.store
    /\ MorePermissive(hist.first.opts, opts)

\* the trim of the outer layer rejects nothing
LastTierOpen(op) ==
    /\ op.EdgesLast = AllEdgesBitmap
    /\ op.ObjectTypesLast = {}
    /\ op.FilterLast = store.objects

----------------------------------------------------------------------------
(* The GraphNode of a node over the run *)

\* the step is a step of the run, not the entry of a second call
StepOfRun == hist'.call = hist.call

\* C21: once a node has a GraphNode, no later step changes its processRound or
\* its accumulatedprobability, whatever Backlinks is; the seeds keep round 1 and
\* probability 1
EarliestDiscoveryWins ==
    [][StepOfRun =>
          \A o \in store.objects :
              extrainfo[o].present =>
                  /\ extrainfo'[o].present
                  /\ extrainfo'[o].processRound = extrainfo[o].processRound
                  /\ extrainfo'[o].accumulatedprobability = extrainfo[o].accumulatedprobability]_vars

\* C22: when the degree cap fired for a node, the CanExpand recorded for it, and
\* the "canexpand" of the node in the returned graph, is the number of its
\* candidates minus the number of its committed edges
CanExpandIsSuppressedCount ==
    \A n \in store.objects :
        hist.cap[n].fired =>
            /\ hist.cap[n].canexpand = hist.cap[n].candidates - hist.cap[n].committed
            /\ pc = "done" /\ n \in nodes
                   => nd[n].canexpand = hist.cap[n].candidates - hist.cap[n].committed

----------------------------------------------------------------------------
(* The turn of one node, step by step *)

\* the tests of lines 195-251 for the neighbour m of the node whose turn it is
\* (or was last), on the graph and the map as they were when the turn began
AcceptedAtStart(m) ==
    LET b == turn.before
        n == turn.n
        lab == store.edges[StorePair(n, m)] \cap b.detectedges
        prob == MaxProbability(lab, StorePair(n, m))
    IN /\ lab # {}
       /\ b.detectobjecttypes.isnil \/ store.type[m] \in b.detectobjecttypes.types
       /\ prob >= opts.MinEdgeProbability
       /\ ((turn.ei.accumulatedprobability * prob) \div 100) * 100
              >= opts.MinAccumulatedProbability * AccOne
       /\ ~ /\ m \in b.nodes
             /\ b.currentRound > 1
             /\ b.extrainfo[m].present
             /\ b.extrainfo[m].processRound + opts.Backlinks <= b.currentRound
             /\ \/ SIDIsNull(store.sid[n])
                \/ SIDIsNull(store.sid[m])
                \/ SIDComponent2(store.sid[n]) # 21
                \/ store.sid[n] # store.sid[m]
       /\ m \in opts.FilterMiddle

CandidatesAtStart == {m \in Neighbours(turn.n) : AcceptedAtStart(m)}

\* the turn of turn.n is over: its edges are committed
TurnCommitted == turn.n # "" /\ pc # "range"

\* C23: while the candidates of a node are computed nothing is committed, each
\* candidate is tested on the graph as it was when the turn began, and the
\* decision of the degree cap is taken on the complete candidate set
CandidatesBeforeCommits ==
    /\ pc = "range" =>
          /\ nodes = turn.before.nodes
          /\ gedges = turn.before.gedges
          /\ DOMAIN turn.newconnectionsmap =
                {GraphPair(turn.n, m) : m \in CandidatesAtStart \ turn.pending}
    /\ TurnCommitted =>
          /\ hist.cap[turn.n].candidates = Cardinality(CandidatesAtStart)
          /\ hist.cap[turn.n].fired <=>
                 /\ opts.MaxOutgoingConnections # -1
                 /\ Cardinality(CandidatesAtStart) >= opts.MaxOutgoingConnections

\* the cap fired on three candidates seen together and let one of them through
CandidatesBeforeCommitsReached ==
    /\ TurnCommitted
    /\ hist.cap[turn.n].fired
    /\ Cardinality(CandidatesAtStart) = 3
    /\ hist.cap[turn.n].committed = 1
    /\ Cardinality(nodes) = 2

----------------------------------------------------------------------------
(* The rounds *)

\* C24: when the range loop of a round is over, every node that was in the graph
\* with the processRound of the round when the round began has had its turn,
\* whatever Backlinks is
RoundNodesAllExpanded ==
    pc \notin {"nodes", "range", "panic"} => hist.due \subseteq visited

\* no two objects of the store share a SID that is not null
SIDsDistinct ==
    \A a, b \in store.objects :
        a # b /\ ~SIDIsNull(store.sid[a]) => store.sid[a] # store.sid[b]

\* the end of a graph edge from which it was found, and the end that was found
NearEnd(pair) == IF opts.Direction = In THEN pair[2] ELSE pair[1]

\* a step of a round after the first records no edge toward a node that is in
\* the graph with a processRound up to that round
NoEdgeTowardEarlierNode ==
    pc = "nodes" /\ currentRound > 1 =>
        \A p \in DOMAIN gedges' :
            p \notin DOMAIN gedges \/ gedges'[p] # gedges[p] =>
                ~(FarEnd(p) \in nodes /\ extrainfo[FarEnd(p)].processRound <= currentRound)

\* every edge joins two seeds or a node of round k+1 to a node of round k
EdgesFollowRounds ==
    \A p \in DOMAIN gedges :
        \/ p[1] \in opts.FilterFirst /\ p[2] \in opts.FilterFirst
        \/ extrainfo[FarEnd(p)].processRound = extrainfo[NearEnd(p)].processRound + 1

\* C25: with Backlinks = 0 and no two objects sharing a SID, no edge is recorded
\* after round 1 toward a node already in the graph with a processRound up to
\* the current round, and every edge of the graph joins two seeds or a node of
\* round k+1 to a node of round k
BacklinkFree ==
    /\ [][opts.Backlinks = 0 /\ SIDsDistinct => NoEdgeTowardEarlierNode]_vars
    /\ [](opts.Backlinks = 0 /\ SIDsDistinct /\ pc \in {"nodes", "round", "trim"}
             => EdgesFollowRounds)

----------------------------------------------------------------------------
(* The policies of the tiers *)

\* the edge policy the spec gives the current round
PolicyOfRound == IF currentRound = 1 THEN opts.EdgesFirst ELSE opts.EdgesMiddle

\* C26: an edge label committed while a node of round 1 is processed is a
\* non-empty subset of EdgesFirst, one committed in a later round a non-empty
\* subset of EdgesMiddle
LabelsFollowPolicy ==
    [][pc = "nodes" =>
          \A p \in DOMAIN gedges' :
              IF p \in DOMAIN gedges
              THEN gedges'[p] \ gedges[p] \subseteq PolicyOfRound
              ELSE gedges'[p] # {} /\ gedges'[p] \subseteq PolicyOfRound]_vars

\* with EdgesFirst and EdgesMiddle of different kinds, the edges of rounds 1, 2
\* and 3 are committed, those of both kinds with the kind of their round alone
LabelsFollowPolicyReached ==
    /\ opts.EdgesFirst = {"GenericAll"}
    /\ opts.EdgesMiddle = {"WriteDacl"}
    /\ <<"A", "B">> \in DOMAIN gedges
    /\ store.edges[<<"C", "T">>] = {"GenericAll", "WriteDacl"}
    /\ store.edges[<<"A", "B">>] = {"GenericAll", "WriteDacl"}
    /\ gedges[<<"C", "T">>] = {"GenericAll"}
    /\ gedges[<<"A", "B">>] = {"WriteDacl"}
    /\ extrainfo["A"].processRound = 4

\* the type set the spec gives the round in which n had its turn
TypesOfTurn(n) ==
    IF extrainfo[n].processRound = 1 THEN opts.ObjectTypesFirst.types
    ELSE opts.ObjectTypesMiddle

\* C27: a type set without members restricts nothing in any tier. On the line,
\* where no other test rejects a candidate, every neighbour of an expanded node
\* whose type is in the set of the tier, or whose tier has an empty set, is
\* recorded, and the trim deletes a node only if ObjectTypesLast has members
\* and lacks the node's type
EmptyTypeSetRestrictsNothing ==
    (opts.EdgesFirst = AllEdgesBitmap /\ opts.EdgesMiddle = AllEdgesBitmap) =>
        /\ \A n \in hist.expanded : \A m \in Neighbours(n) :
               (TypesOfTurn(n) = {} \/ store.type[m] \in TypesOfTurn(n)) =>
                   \E r \in hist.recorded : r[1] = n /\ r[2] = m
        /\ \A o \in hist.trimDeleted :
               opts.ObjectTypesLast # {} /\ store.type[o] \notin opts.ObjectTypesLast

\* the same law where ObjectTypesFirst is nil or has members
TypeSetRestrictsByMembers ==
    (opts.ObjectTypesFirst.isnil \/ opts.ObjectTypesFirst.types # {}) =>
        EmptyTypeSetRestrictsNothing

\* an empty middle and an empty last set let a node of the other type through
EmptyMiddleAndLastSetsOpen ==
    /\ pc = "done"
    /\ opts.ObjectTypesFirst = [isnil |-> FALSE, types |-> {"User"}]
    /\ opts.ObjectTypesMiddle = {} /\ opts.ObjectTypesLast = {}
    /\ store.type["C"] = "User" /\ store.type["B"] = "Group"
    /\ "B" \in nodes

----------------------------------------------------------------------------
(* The phases after the expansion *)

\* o is outer whatever part of S was deleted before it
OuterWhenDeleted(o, S) ==
    \A D \in SUBSET (S \ {o}) : o \in OuterNodes(nodes \ D, DeleteEdgesOf(gedges, D))

\* the nodes a step deletes
DeletedByStep == nodes \ nodes'

\* C28: every node a pass of the node-budget prune deletes is outer when it is
\* deleted and has the highest processRound of the nodes that were outer at the
\* start of the pass, a pass never takes the graph below NodeLimit, and a prune
\* that ends without the warning leaves exactly NodeLimit nodes
BudgetTakesOutermostLayer ==
    /\ [][pc = "budget" /\ pc' # "panic" =>
             /\ \A o \in DeletedByStep :
                    /\ OuterWhenDeleted(o, DeletedByStep)
                    /\ extrainfo[o].processRound = MaxRoundOf(OuterNodes(nodes, gedges))
             /\ Cardinality(DeletedByStep) <= lefttoremove
             /\ Cardinality(nodes') >= opts.NodeLimit]_vars
    /\ [](AfterBudget /\ hist.budgetPasses > 0 /\ ~warned => Order = opts.NodeLimit)

\* the prune took the whole of one layer and then part of the next one, and
\* stopped at NodeLimit
BudgetTakesOutermostLayerReached ==
    /\ AfterBudget /\ ~warned
    /\ hist.budgetPasses = 2
    /\ Cardinality(hist.budgetDeleted) >= 2
    /\ Order = opts.NodeLimit
    /\ \E o \in nodes \ opts.FilterFirst : \E d \in hist.budgetDeleted :
           extrainfo[o].processRound = extrainfo[d].processRound

\* C29: a trim pass deletes an outer node as soon as one of its incident edges
\* has a label disjoint from EdgesLast, whatever its other edges are; an outer
\* node with an incident edge that the pass keeps has every incident edge inside
\* EdgesLast and passes ObjectTypesLast and FilterLast
OneBadEdgeDeletes ==
    [][pc = "trim" =>
          \A o \in OuterNodes(nodes, gedges) :
              IncidentEdges(o) # {} =>
                  /\ (\E p \in IncidentEdges(o) : opts.EdgesLast \cap gedges[p] = {})
                         => o \notin nodes'
                  /\ o \in nodes' => LastTierAccepts(o)]_vars

\* B, with one edge inside EdgesLast and one outside, was deleted by the trim
OneBadEdgeDeletesReached ==
    /\ opts.Direction = In
    /\ opts.FilterFirst = {"T", "C"}
    /\ opts.EdgesLast = {"GenericAll"}
    /\ opts.FilterLast = store.objects /\ opts.ObjectTypesLast = {}
    /\ {<<"B", "T">>, <<"B", "C">>} \subseteq DOMAIN store.edges
    /\ store.edges[<<"B", "T">>] = {"GenericAll"}
    /\ store.edges[<<"B", "C">>] = {"WriteDacl"}
    /\ \E r \in hist.recorded : r[1] = "T" /\ r[2] = "B"
    /\ \E r \in hist.recorded : r[1] = "C" /\ r[2] = "B"
    /\ "B" \in hist.trimDeleted

\* the nodes the phases after the expansion have deleted
DeletedAfterExpansion == hist.trimDeleted \cup hist.budgetDeleted \cup hist.islandDeleted

\* the step only takes nodes away, and with them their incident edges
OnlyDeletes ==
    /\ nodes' \subseteq nodes
    /\ DOMAIN gedges' = {p \in DOMAIN gedges : p[1] \in nodes' /\ p[2] \in nodes'}
    /\ \A p \in DOMAIN gedges' : gedges'[p] = gedges[p]

\* C30: a step of the trim, the node-budget prune, the island prune or the
\* final marking only deletes nodes and their incident edges: the nodes after it
\* are nodes before it, the edges after it are the edges before it between the
\* remaining nodes, each with its label, and the returned graph has none of the
\* deleted nodes
PostFilterOnlyDeletes ==
    /\ [][(pc \in {"trim", "budget", "islands", "final"}) => OnlyDeletes]_vars
    /\ [](pc = "done" => nodes \cap DeletedAfterExpansion = {})

\* a node that the cap left with CanExpand > 0 was deleted after the expansion
\* and is not in the returned graph, and a deleted node took an edge with it
PostFilterOnlyDeletesReached ==
    /\ pc = "done"
    /\ \E o \in DeletedAfterExpansion :
           /\ extrainfo[o].present /\ extrainfo[o].CanExpand > 0
           /\ o \notin nodes
    /\ \E r \in hist.recorded : r[1] \notin hist.capFired /\ r[2] \in DeletedAfterExpansion

----------------------------------------------------------------------------
(* The seeds and the degree cap *)

\* C31: when PruneIslands is false every object matching FilterFirst is a node
\* of the returned graph and is marked "target": neither the trim nor the
\* node-budget prune deletes a seed
SeedsSurvive ==
    pc = "done" /\ ~opts.PruneIslands =>
        \A s \in opts.FilterFirst : s \in nodes /\ nd[s].target

\* C31, amended: when PruneIslands is false a seed is missing from the returned
\* graph only if the trim or the node-budget prune deleted it, every seed in the
\* graph is marked "target", the trim deletes no seed when the last tier is
\* open and the prune deletes nothing when NodeLimit = 0
SeedsSurviveUnlessPruned ==
    pc = "done" /\ ~opts.PruneIslands =>
        /\ \A s \in opts.FilterFirst :
               IF s \in nodes THEN nd[s].target
               ELSE s \in hist.trimDeleted \cup hist.budgetDeleted
        /\ LastTierOpen(opts) => opts.FilterFirst \cap hist.trimDeleted = {}
        /\ opts.NodeLimit = 0 => hist.budgetDeleted = {}

\* of two seeds joined by an edge the outer one was deleted by the trim, the
\* other one is returned as a target
SeedsSurviveUnlessPrunedReached ==
    /\ pc = "done" /\ ~opts.PruneIslands
    /\ opts.NodeLimit = 0
    /\ opts.FilterFirst = {"T", "C"}
    /\ "C" \in hist.trimDeleted
    /\ "T" \in nodes /\ nd["T"].target

\* the candidates of n the cap kept out of the graph
Suppressed(n) == hist.cap[n].candidates - hist.cap[n].committed

\* C32: CanExpand is never negative, and a node of the returned graph for which
\* the cap suppressed at least one candidate is marked "canexpand" with a value
\* above 0
CanExpandMarkerKept ==
    /\ \A n \in store.objects : extrainfo[n].present => extrainfo[n].CanExpand >= 0
    /\ pc = "done" =>
           \A n \in nodes : hist.cap[n].fired /\ Suppressed(n) > 0 => nd[n].canexpand > 0

\* the first part alone
CanExpandNotNegative ==
    \A n \in store.objects : extrainfo[n].present => extrainfo[n].CanExpand >= 0

\* the second part alone
SuppressedNodesMarked ==
    pc = "done" =>
        \A n \in nodes : hist.cap[n].fired /\ Suppressed(n) > 0 => nd[n].canexpand > 0

\* an expansion under the cap commits at most cap edges, one below it or without
\* a cap commits every candidate
CapUpperBound ==
    \A n \in hist.expanded :
        LET c == opts.MaxOutgoingConnections
        IN /\ c >= 0 /\ hist.cap[n].candidates >= c => hist.cap[n].committed <= c
           /\ c = -1 \/ hist.cap[n].candidates < c =>
                  hist.cap[n].committed = hist.cap[n].candidates

\* an expansion commits at least the smaller of the candidate count and the cap
CapLowerBound ==
    \A n \in hist.expanded :
        LET c == opts.MaxOutgoingConnections
        IN c >= 0 =>
              hist.cap[n].committed >=
                  (IF hist.cap[n].candidates < c THEN hist.cap[n].candidates ELSE c)

\* C33: with MaxOutgoingConnections = c >= 0 an expansion commits at most c edges
\* when the node has c or more candidates and every candidate when it has fewer
\* or c = -1, and never fewer edges than both the candidate count and c
DegreeCapBounds == CapUpperBound /\ CapLowerBound

====
